---- MODULE Spec2Model ----
(***************************************************************************)
(* Authentication and dispatch core of the Kiket Node.js SDK: the webhook   *)
(* dispatcher with its handler registry and scope check, the telemetry      *)
(* reporter, the HMAC signature verifier, and the runtime token verifier    *)
(* with its key set cache.                                                  *)
(*                                                                         *)
(* Strings the code inspects character by character (event names, version  *)
(* strings, registry keys, timestamps, signed payloads) are sequences of    *)
(* one-character strings, so that trim(), parseInt(), the regular           *)
(* expressions and the concatenations are computed as the code computes     *)
(* them.  Scope names are atomic strings: the code only compares them for   *)
(* equality.                                                               *)
(***************************************************************************)
EXTENDS Integers, Sequences, FiniteSets, TLC

VARIABLES
    handlers,   \* KiketHandlerRegistry.handlers: Map<string, HandlerMetadata>
    keys,       \* the keys of handlers in the Map's insertion order
    registered, \* history: <<event, version>> -> the last registration made for it
    nRegister,  \* number of register() calls made so far
    disp,       \* the dispatches: id -> per-request state of dispatchHandler
    reporter,   \* KiketSDK.telemetry: the fields of the TelemetryReporter
    scopeCall,  \* an application of checkScopes: its arguments and its result
    recordCall, \* a call of TelemetryReporter.record: its outcomes and its result
    sigCall,    \* a call of verifySignature: its arguments, the clock, its result
    regCall,    \* a call of the registry's get, eventNames or all: its result
    helperCall, \* a call of context.secret or context.requireScopes: its result
    jwksCache,  \* the module's jwksCache: Map<string, JwksCache>
    clock,      \* Date.now(), in milliseconds
    verifs,     \* the calls of verifyRuntimeToken in progress: id -> its state
    remote      \* history: the fetches of key sets made and completed so far

vars == <<handlers, keys, registered, nRegister, disp, reporter, scopeCall,
          recordCall, sigCall, regCall, helperCall, jwksCache, clock, verifs,
          remote>>

\* The registry and its history.
regVars == <<handlers, keys, registered, nRegister>>

\* The calls of single functions.
callVars == <<scopeCall, recordCall, sigCall, regCall, helperCall>>

\* The key set cache, the clock and the token verifications.
jwksVars == <<jwksCache, clock, verifs, remote>>

\* ------------------------------------------------------------------ bounds

\* The number of register() calls a behaviour makes.
MaxRegister == 2

\* The length of the scope lists checkScopes is applied to.
MaxScopes == 2

\* ------------------------------------------------------------ JS strings

\* The JavaScript value undefined, where a string is expected.
undefined == <<"undefined">>

\* The characters String.prototype.trim removes (the ones the model uses).
Whitespace == {" "}

\* The characters \d matches (the ones the model uses).
Digit == {"0", "1", "2"}

\* !value for a string-or-undefined value: undefined and "" are falsy.
Falsy(value) == value = undefined \/ value = <<>>

RECURSIVE trimStart(_)
trimStart(s) ==
    IF s # <<>> /\ Head(s) \in Whitespace THEN trimStart(Tail(s)) ELSE s

RECURSIVE trimEnd(_)
trimEnd(s) ==
    IF s # <<>> /\ s[Len(s)] \in Whitespace
    THEN trimEnd(SubSeq(s, 1, Len(s) - 1))
    ELSE s

\* String.prototype.trim
trim(s) == trimEnd(trimStart(s))

\* A JavaScript array or object where a string is expected: what Express
\* gives as req.query.version for ?version=1&version=2 or ?version[x]=1.
NotAString == <<"array">>

\* The call threw a TypeError: value.trim is not a function.
ThrewTypeError == <<"TypeError">>

\* KiketSDK.coerceOptional
coerceOptional(value) ==
    IF Falsy(value) THEN undefined
    ELSE IF value = NotAString THEN ThrewTypeError
    ELSE IF trim(value) = <<>> THEN undefined ELSE trim(value)

\* a || b on string-or-undefined values
OrElse(a, b) == IF Falsy(a) THEN b ELSE a

\* /^\d+$/.test(s)
isDigits(s) == s # <<>> /\ \A i \in 1..Len(s) : s[i] \in Digit

\* s.replace(/^v/, '')
stripV(s) == IF s # <<>> /\ Head(s) = "v" THEN Tail(s) ELSE s

\* The alternate form of a requested version.
alternateVersion(requestedVersion) ==
    IF isDigits(requestedVersion)
    THEN <<"v">> \o requestedVersion
    ELSE stripV(requestedVersion)

\* The requested version: path segment, then header, then query parameter;
\* a || b evaluates b only when a is falsy, so a source throws only when the
\* sources before it gave nothing.
requestedVersionOf(pathVersion, headerVersion, queryVersion) ==
    OrElse(coerceOptional(pathVersion),
           OrElse(coerceOptional(headerVersion), coerceOptional(queryVersion)))

\* --------------------------------------------------------------- registry

\* KiketHandlerRegistry.makeKey
makeKey(event, version) == event \o <<":">> \o version

\* The value registry.get returns for a missing key (null).
null == [event |-> undefined, version |-> undefined, handler |-> "null",
         requiredScopes |-> <<>>]

\* KiketHandlerRegistry.get
get(h, event, version) ==
    IF makeKey(event, version) \in DOMAIN h THEN h[makeKey(event, version)] ELSE null

\* Map.prototype.set
MapSet(h, key, value) ==
    [k \in DOMAIN h \cup {key} |-> IF k = key THEN value ELSE h[k]]

\* The Map's keys in insertion order after set(key, ...): a new key goes to
\* the end, a key the Map has keeps its place.
keysAfterSet(ks, key) ==
    IF \E k \in 1..Len(ks) : ks[k] = key THEN ks ELSE Append(ks, key)

\* KiketHandlerRegistry.all: Array.from(this.handlers.values())
all(h, ks) == [k \in 1..Len(ks) |-> h[ks[k]]]

\* Set.prototype.add on a Set held as the list of its values in insertion order.
SetAdd(list, x) ==
    IF \E k \in 1..Len(list) : list[k] = x THEN list ELSE Append(list, x)

RECURSIVE eventsOf(_, _)
\* The loop of eventNames: events.add(metadata.event) for each of the values.
eventsOf(values, events) ==
    IF values = <<>> THEN events
    ELSE eventsOf(Tail(values), SetAdd(events, Head(values).event))

\* KiketHandlerRegistry.eventNames
eventNames(h, ks) == eventsOf(all(h, ks), <<>>)

\* --------------------------------------------------------- scope authorizer

RECURSIVE includes(_, _)
\* Array.prototype.includes
includes(list, x) ==
    IF list = <<>> THEN FALSE
    ELSE IF Head(list) = x THEN TRUE ELSE includes(Tail(list), x)

RECURSIVE filterFirstMissing(_, _)
\* A filter that stops at the first missing scope.
filterFirstMissing(requiredScopes, availableScopes) ==
    IF requiredScopes = <<>> THEN <<>>
    ELSE IF includes(availableScopes, Head(requiredScopes))
         THEN filterFirstMissing(Tail(requiredScopes), availableScopes)
         ELSE <<Head(requiredScopes)>>

RECURSIVE filterMissing(_, _)
\* requiredScopes.filter(scope => !availableScopes.includes(scope))
filterMissing(requiredScopes, availableScopes) ==
    IF requiredScopes = <<>> THEN <<>>
    ELSE IF includes(availableScopes, Head(requiredScopes))
         THEN filterMissing(Tail(requiredScopes), availableScopes)
         ELSE <<Head(requiredScopes)>> \o filterMissing(Tail(requiredScopes), availableScopes)

\* checkScopes without the wildcard.
checkScopesNoWildcard(requiredScopes, availableScopes) ==
    filterMissing(requiredScopes, availableScopes)

\* KiketSDK.checkScopes
checkScopes(requiredScopes, availableScopes) ==
    IF includes(availableScopes, "*") THEN <<>>
    ELSE filterMissing(requiredScopes, availableScopes)

\* ---------------------------------------------------------- token verifier

\* AuthenticationError messages of verifyRuntimeToken, decodeJwt and fetchJwks.
MissingToken == "Missing runtime_token in payload"
KeyFetchFailed == "Failed to fetch JWKS"
TokenExpired == "Runtime token has expired"
InvalidClaim == "Invalid token claim"
InvalidTokenSignature == "Invalid token signature"
InvalidToken == "Invalid token"

\* What a delivery's authentication.runtime_token can be: absent (or the empty
\* string), or a token that jose.jwtVerify accepts or rejects at one check.
Tokens == {"absent", "valid", "badsig", "badiss", "expired", "malformed"}

\* decodeJwt without the expiry check.
decodeJwtIgnoringExpiry(token, jwksOk) ==
    IF ~jwksOk THEN KeyFetchFailed
    ELSE IF token = "badiss" THEN InvalidClaim
    ELSE IF token = "badsig" THEN InvalidTokenSignature
    ELSE IF token \in {"valid", "expired"} THEN "ok"
    ELSE InvalidToken

\* decodeJwt: "ok" or the message of the AuthenticationError it throws.
\* jwksOk is the outcome of fetchJwks (a cached or fetched key set, or a throw).
decodeJwt(token, jwksOk) ==
    IF ~jwksOk THEN KeyFetchFailed
    ELSE IF token = "expired" THEN TokenExpired
    ELSE IF token = "badiss" THEN InvalidClaim
    ELSE IF token = "badsig" THEN InvalidTokenSignature
    ELSE IF token = "valid" THEN "ok"
    ELSE InvalidToken

\* verifyRuntimeToken: "ok" or the message of the AuthenticationError.
verifyRuntimeToken(token, jwksOk) ==
    IF token = "absent" THEN MissingToken ELSE decodeJwt(token, jwksOk)

\* A numeric claim that is present, and one that is absent (undefined).
Num(n) == [defined |-> TRUE, value |-> n]
Absent == [defined |-> FALSE, value |-> 0]

\* The claims of a token besides scopes: sub, exp (in seconds), org_id, ext_id,
\* proj_id.  NoClaims is a token that carries a subject only.
NoClaims ==
    [sub |-> undefined, exp |-> Absent, org_id |-> Absent, ext_id |-> Absent,
     proj_id |-> Absent]

\* The JWT claims of a delivery that was not verified (jwtPayload unassigned).
NoJwt == [verified |-> FALSE, scopes |-> undefined, claims |-> NoClaims]

\* null, and new Date(ms).toISOString(): the ISO 8601 text of the instant ms
\* milliseconds after the epoch, held as that instant.
Null == [isNull |-> TRUE, ms |-> 0]
toISOString(ms) == [isNull |-> FALSE, ms |-> ms]

\* The AuthContext before buildAuthContext ran.
NoAuth == [built |-> FALSE, runtimeToken |-> "absent", tokenType |-> "none",
           expiresAt |-> Null, scopes |-> <<>>, orgId |-> Absent,
           extId |-> Absent, projId |-> Absent]

\* buildAuthContext with scopes: jwtPayload.scopes, no default.
buildAuthContextWithoutDefault(jwtPayload, runtime_token) ==
    [built |-> TRUE, runtimeToken |-> runtime_token, tokenType |-> "runtime",
     expiresAt |-> Null, scopes |-> jwtPayload.scopes,
     orgId |-> jwtPayload.claims.org_id, extId |-> jwtPayload.claims.ext_id,
     projId |-> jwtPayload.claims.proj_id]

\* buildAuthContext: the raw runtime token, 'runtime', the exp claim as an ISO
\* timestamp (null when exp is absent or 0), jwtPayload.scopes || [], and the
\* org_id, ext_id and proj_id claims.
buildAuthContext(jwtPayload, runtime_token) ==
    [built |-> TRUE, runtimeToken |-> runtime_token, tokenType |-> "runtime",
     expiresAt |-> IF jwtPayload.claims.exp.defined /\ jwtPayload.claims.exp.value # 0
                   THEN toISOString(jwtPayload.claims.exp.value * 1000)
                   ELSE Null,
     scopes |-> IF jwtPayload.scopes = undefined THEN <<>> ELSE jwtPayload.scopes,
     orgId |-> jwtPayload.claims.org_id, extId |-> jwtPayload.claims.ext_id,
     projId |-> jwtPayload.claims.proj_id]

\* -------------------------------------------------------- handler outcomes

\* No exception pending.
NoError == [isError |-> FALSE, class |-> "none", message |-> "none"]

\* What a handler can throw (or reject with): an Error, the API client's
\* KiketSDKError, or a value that is not an Error (here the string "oops").
HandlerFailed == [isError |-> TRUE, class |-> "Error", message |-> "Handler failed"]

Throwables ==
    { HandlerFailed,
      [isError |-> TRUE, class |-> "KiketSDKError", message |-> "404: Not Found"],
      [isError |-> FALSE, class |-> "String", message |-> "oops"] }

\* What a handler can return: nothing, a falsy value, an object, or an object
\* JSON.stringify cannot serialise.
Results == {"undefined", "0", "{result}", "circular"}

\* The truthiness of a handler's result.
Truthy(result) == result \notin {"undefined", "0"}

\* result || { ok: true }
OrAck(result) == IF Truthy(result) THEN result ELSE "{ok:true}"

\* Whether res.json can serialise the value; JSON.stringify throws a TypeError
\* on a circular structure.
Serialisable(value) == value # "circular"

StringifyError ==
    [isError |-> TRUE, class |-> "TypeError",
     message |-> "Converting circular structure to JSON"]

\* The TypeError of value.trim() on a value that is no string.
TrimTypeError ==
    [isError |-> TRUE, class |-> "TypeError",
     message |-> "value.trim is not a function"]

\* error instanceof Error ? error.message : String(error)
errorMessageOf(error) == error.message

\* error instanceof Error ? error.constructor.name : undefined
errorClassOf(error) == IF error.isError THEN error.class ELSE "undefined"

\* ----------------------------------------------------------------- responses

NoBody ==
    [error |-> "none", event |-> undefined, version |-> undefined,
     value |-> "none", required_scopes |-> <<>>, missing_scopes |-> <<>>]

ErrorBody(message) == [NoBody EXCEPT !.error = message]

VersionRequired == "Event version required"
NoHandlerRegistered == "No handler registered for event with version"
InsufficientScopes == "Insufficient scopes"
InternalServerError == "Internal server error"
ParseFailed == "Unexpected token in JSON"

\* An outer catch that answers 500 for every error.
catchStatusAlways500(error) == 500

\* The status and body the outer catch of dispatchHandler sends for an error.
catchStatus(error) ==
    IF error.isError /\ error.class = "KiketSDKError" THEN 400 ELSE 500

catchBody(error) ==
    IF error.isError THEN ErrorBody(error.message) ELSE ErrorBody(InternalServerError)

\* ------------------------------------------------------ signature verifier

\* The length in characters of a SHA-256 digest in hexadecimal.
DigestLength == 64

\* The width in seconds of the window around now a timestamp is accepted in.
Window == 300

\* The decimal digits, the digit of value v at position v + 1.
DecimalDigits == <<"0", "1", "2", "3", "4", "5", "6", "7", "8", "9">>

\* The value of a decimal digit.
digitValue(c) == CHOOSE v \in 0..9 : DecimalDigits[v + 1] = c

\* Whether a character is a decimal digit.
isDecimalDigit(c) == \E v \in 0..9 : DecimalDigits[v + 1] = c

RECURSIVE digitsOf(_)
\* The decimal digits of a natural number.
digitsOf(n) ==
    IF n < 10 THEN <<DecimalDigits[n + 1]>>
    ELSE digitsOf(n \div 10) \o <<DecimalDigits[(n % 10) + 1]>>

\* Number.prototype.toString, for an integer.
toString(n) == IF n < 0 THEN <<"-">> \o digitsOf(-n) ELSE digitsOf(n)

\* The result NaN of parseInt.
NaN == [nan |-> TRUE, value |-> 0]

RECURSIVE parseDigits(_, _, _)
\* The value of the longest prefix of digits of s, after the digits already
\* read (any tells whether there is one); NaN when there is no digit at all.
parseDigits(s, acc, any) ==
    IF s # <<>> /\ isDecimalDigit(Head(s))
    THEN parseDigits(Tail(s), acc * 10 + digitValue(Head(s)), TRUE)
    ELSE IF any THEN [nan |-> FALSE, value |-> acc] ELSE NaN

\* parseInt(s, 10): leading whitespace is skipped, a sign is read, then the
\* longest prefix of digits; what follows the digits is ignored.
parseInt(s) ==
    LET t == trimStart(s)
        negative == t # <<>> /\ Head(t) = "-"
        signed == t # <<>> /\ Head(t) \in {"-", "+"}
        parsed == parseDigits(IF signed THEN Tail(t) ELSE t, 0, FALSE)
    IN IF negative /\ ~parsed.nan THEN [nan |-> FALSE, value |-> 0 - parsed.value]
       ELSE parsed

\* Math.abs
abs(x) == IF x < 0 THEN 0 - x ELSE x

\* A header value or a signature string: its length in bytes and its text.
\* The text is a digest (of a secret and a payload) or a literal.
Text(bytes, kind, a, b) == [bytes |-> bytes, text |-> <<kind, a, b>>]

\* A header that is not set.
NoHeader == Text(0, "undefined", <<>>, <<>>)

\* crypto.createHmac('sha256', secret).update(payload).digest('hex'): distinct
\* secrets or payloads give distinct digests.
hmac(secret, payload) == Text(DigestLength, "hmac-sha256", secret, payload)

\* A signed payload that leaves the body out.
signedPayloadWithoutBody(timestamp, body) == timestamp \o <<".">>

\* `${timestamp}.${body}`
signedPayload(timestamp, body) == timestamp \o <<".">> \o body

\* generateSignature(secret, body, timestamp)
generateSignature(secret, body, timestamp) ==
    [signature |-> hmac(secret, signedPayload(toString(timestamp), body)),
     timestamp |-> toString(timestamp)]

\* new AuthenticationError(message)
AuthenticationError(message) ==
    [isError |-> TRUE, class |-> "AuthenticationError", message |-> message]

\* The RangeError crypto.timingSafeEqual throws for inputs of different
\* byte lengths.
TimingSafeEqualLength ==
    [isError |-> TRUE, class |-> "RangeError",
     message |-> "Input buffers must have the same byte length"]

\* crypto.timingSafeEqual on Buffer.from of two strings: an error for
\* different byte lengths, else whether the contents are equal.
timingSafeEqual(a, b) ==
    [error |-> IF a.bytes # b.bytes THEN TimingSafeEqualLength ELSE NoError,
     equal |-> a.bytes = b.bytes /\ a.text = b.text]

\* The headers a request carries its signature and its timestamp in, under
\* lower-case names (as Express gives them) or under the documented names.
Headers(signature, timestamp, lower) ==
    [name \in {"x-kiket-signature", "X-Kiket-Signature"} |->
        IF lower = (name = "x-kiket-signature") THEN signature ELSE NoHeader]
    @@
    [name \in {"x-kiket-timestamp", "X-Kiket-Timestamp"} |->
        IF lower = (name = "x-kiket-timestamp") THEN timestamp ELSE undefined]

\* verifySignature with a window that excludes its two ends.
verifySignatureOpenWindow(secret, body, headers, now) ==
    LET signature == IF headers["x-kiket-signature"].bytes # 0
                     THEN headers["x-kiket-signature"]
                     ELSE headers["X-Kiket-Signature"]
        timestamp == OrElse(headers["x-kiket-timestamp"], headers["X-Kiket-Timestamp"])
        requestTime == parseInt(timestamp)
        compared == timingSafeEqual(signature, hmac(secret, signedPayload(timestamp, body)))
    IN IF Falsy(secret) THEN AuthenticationError("Webhook secret not configured")
       ELSE IF signature.bytes = 0
       THEN AuthenticationError("Missing X-Kiket-Signature header")
       ELSE IF Falsy(timestamp)
       THEN AuthenticationError("Missing X-Kiket-Timestamp header")
       ELSE IF requestTime.nan
       THEN AuthenticationError("Invalid X-Kiket-Timestamp header")
       ELSE IF abs(now - requestTime.value) >= Window
       THEN AuthenticationError("Request timestamp too old or too far in future")
       ELSE IF compared.error # NoError THEN compared.error
       ELSE IF ~compared.equal THEN AuthenticationError("Invalid signature")
       ELSE NoError

\* verifySignature(secret, body, headers) at the time now (in seconds): NoError
\* when it returns, else the error it throws.
verifySignature(secret, body, headers, now) ==
    LET signature == IF headers["x-kiket-signature"].bytes # 0
                     THEN headers["x-kiket-signature"]
                     ELSE headers["X-Kiket-Signature"]
        timestamp == OrElse(headers["x-kiket-timestamp"], headers["X-Kiket-Timestamp"])
        requestTime == parseInt(timestamp)
        compared == timingSafeEqual(signature, hmac(secret, signedPayload(timestamp, body)))
    IN IF Falsy(secret) THEN AuthenticationError("Webhook secret not configured")
       ELSE IF signature.bytes = 0
       THEN AuthenticationError("Missing X-Kiket-Signature header")
       ELSE IF Falsy(timestamp)
       THEN AuthenticationError("Missing X-Kiket-Timestamp header")
       ELSE IF requestTime.nan
       THEN AuthenticationError("Invalid X-Kiket-Timestamp header")
       ELSE IF abs(now - requestTime.value) > Window
       THEN AuthenticationError("Request timestamp too old or too far in future")
       ELSE IF compared.error # NoError THEN compared.error
       ELSE IF ~compared.equal THEN AuthenticationError("Invalid signature")
       ELSE NoError

\* The status the signature-verifying dispatcher answers with when
\* verifySignature throws: 401 for an AuthenticationError; any other error is
\* rethrown to the outer catch.  0 when verifySignature returns.
signatureStatus(error) ==
    IF error = NoError THEN 0
    ELSE IF error.class = "AuthenticationError" THEN 401
    ELSE catchStatus(error)

\* ------------------------------------------------------ telemetry reporter

\* String.prototype.toLowerCase on the characters the model uses.
toLowerCase(s) == [k \in 1..Len(s) |-> IF s[k] = "T" THEN "t" ELSE s[k]]

\* (process.env.KIKET_SDK_TELEMETRY_OPTOUT || '').toLowerCase() === '1'
optOut(env) == toLowerCase(OrElse(env, <<>>)) = <<"1">>

RECURSIVE stripSlashes(_)
\* url.replace(/\/+$/, '')
stripSlashes(url) ==
    IF url # <<>> /\ url[Len(url)] = "/"
    THEN stripSlashes(SubSeq(url, 1, Len(url) - 1))
    ELSE url

\* trimmed.endsWith('/telemetry'); "/" and "telemetry" are one element each.
endsWithTelemetry(s) ==
    Len(s) >= 2 /\ SubSeq(s, Len(s) - 1, Len(s)) = <<"/", "telemetry">>

\* TelemetryReporter.resolveEndpoint
resolveEndpoint(url) ==
    IF Falsy(url) THEN undefined
    ELSE IF endsWithTelemetry(stripSlashes(url)) THEN stripSlashes(url)
    ELSE stripSlashes(url) \o <<"/", "telemetry">>

\* A constructor that does not read the opt-out variable.
TelemetryReporterIgnoringOptOut(enabled, telemetryUrl, feedbackHook, env) ==
    [enabled |-> enabled, feedbackHook |-> feedbackHook,
     endpoint |-> resolveEndpoint(telemetryUrl),
     constructedWith |-> [enabled |-> enabled, env |-> env]]

\* new TelemetryReporter(enabled, telemetryUrl, feedbackHook, ...), with the
\* value of KIKET_SDK_TELEMETRY_OPTOUT at that moment.  feedbackHook tells
\* whether a callback was given; constructedWith keeps the arguments.
TelemetryReporter(enabled, telemetryUrl, feedbackHook, env) ==
    [enabled |-> enabled /\ ~optOut(env), feedbackHook |-> feedbackHook,
     endpoint |-> resolveEndpoint(telemetryUrl),
     constructedWith |-> [enabled |-> enabled, env |-> env]]

\* What the feedback callback can do, and what the POST can end in.
HookOutcomes == {"returns", "throws", "rejects"}
PostOutcomes == {"2xx", "non-2xx", "network error", "timeout"}

\* What the promise of the feedback callback can do besides: stay pending.
HookBehaviours == HookOutcomes \cup {"never settles"}

HookFailed == [isError |-> TRUE, class |-> "Error", message |-> "Hook failed"]
PostFailed == [isError |-> TRUE, class |-> "AxiosError", message |-> "Network error"]

\* The attempt record makes at a sink.
Attempt(sink, outcome) == <<[sink |-> sink, outcome |-> outcome]>>

\* record without its two try/catch blocks: the first failure rejects.
recordWithoutCatch(rep, hookOutcome, postOutcome) ==
    IF ~rep.enabled THEN [sinks |-> <<>>, result |-> "resolved", error |-> NoError]
    ELSE IF rep.feedbackHook /\ hookOutcome # "returns"
    THEN [sinks |-> Attempt("feedbackHook", hookOutcome), result |-> "rejected",
          error |-> HookFailed]
    ELSE [sinks |-> (IF rep.feedbackHook
                     THEN Attempt("feedbackHook", hookOutcome) ELSE <<>>)
                    \o (IF rep.endpoint # undefined
                        THEN Attempt("post", postOutcome) ELSE <<>>),
          result |-> IF rep.endpoint # undefined /\ postOutcome # "2xx"
                     THEN "rejected" ELSE "resolved",
          error |-> IF rep.endpoint # undefined /\ postOutcome # "2xx"
                    THEN PostFailed ELSE NoError]

\* record without the try/catch around the POST: a failed POST rejects.
recordPropagatingPostFailure(rep, hookOutcome, postOutcome) ==
    IF ~rep.enabled THEN [sinks |-> <<>>, result |-> "resolved", error |-> NoError]
    ELSE [sinks |-> (IF rep.feedbackHook
                     THEN Attempt("feedbackHook", hookOutcome) ELSE <<>>)
                    \o (IF rep.endpoint # undefined
                        THEN Attempt("post", postOutcome) ELSE <<>>),
          result |-> IF rep.endpoint # undefined /\ postOutcome # "2xx"
                     THEN "rejected" ELSE "resolved",
          error |-> IF rep.endpoint # undefined /\ postOutcome # "2xx"
                    THEN PostFailed ELSE NoError]

\* record returning once the feedback callback has failed.
recordStoppingAtFailure(rep, hookOutcome, postOutcome) ==
    IF ~rep.enabled THEN [sinks |-> <<>>, result |-> "resolved", error |-> NoError]
    ELSE [sinks |-> (IF rep.feedbackHook
                     THEN Attempt("feedbackHook", hookOutcome) ELSE <<>>)
                    \o (IF /\ rep.endpoint # undefined
                           /\ ~(rep.feedbackHook /\ hookOutcome # "returns")
                        THEN Attempt("post", postOutcome) ELSE <<>>),
          result |-> "resolved", error |-> NoError]

\* TelemetryReporter.record: the sinks it attempts, in order, and how its
\* promise settles.  Each sink's failure is caught and logged.  The callback's
\* promise is awaited without a timeout: while it is pending, record is.
record(rep, hookOutcome, postOutcome) ==
    IF ~rep.enabled THEN [sinks |-> <<>>, result |-> "resolved", error |-> NoError]
    ELSE IF rep.feedbackHook /\ hookOutcome = "never settles"
    THEN [sinks |-> Attempt("feedbackHook", hookOutcome), result |-> "pending",
          error |-> NoError]
    ELSE [sinks |-> (IF rep.feedbackHook
                     THEN Attempt("feedbackHook", hookOutcome) ELSE <<>>)
                    \o (IF rep.endpoint # undefined
                        THEN Attempt("post", postOutcome) ELSE <<>>),
          result |-> "resolved", error |-> NoError]

\* ---------------------------------------------------------- JWKS cache

\* JWKS_CACHE_TTL = 3600 * 1000: one hour in milliseconds.
JWKS_CACHE_TTL == 3600000

\* The number of key set fetches a behaviour starts.
MaxFetch == 2

\* The number of times a behaviour advances the clock.
MaxTicks == 1

\* The steps the clock advances by: the TTL, and a millisecond less.
Deltas == {JWKS_CACHE_TTL - 1, JWKS_CACHE_TTL}

\* No key set.
NoJwks == [url |-> <<>>, serial |-> 0, wellFormed |-> FALSE]

\* The value jwksCache.get returns for a base URL that has no entry.
NoEntry == [jwks |-> NoJwks, fetchedAt |-> 0]

\* jwksCache.get(baseUrl)
cachedEntry(cache, baseUrl) ==
    IF baseUrl \in DOMAIN cache THEN cache[baseUrl] ELSE NoEntry

\* A cache whose entries never expire.
isFreshForever(cached, now) == cached # NoEntry

\* cached && Date.now() - cached.fetchedAt < JWKS_CACHE_TTL
isFresh(cached, now) ==
    cached # NoEntry /\ now - cached.fetchedAt < JWKS_CACHE_TTL

\* `${baseUrl.replace(/\/+$/, '')}/.well-known/jwks.json`
jwksUrl(baseUrl) == stripSlashes(baseUrl) \o <<"/", ".well-known/jwks.json">>

\* How axios.get of the key set can end: a key set, a 2xx response whose body
\* is no key set, a response that is not 2xx, a network error, the timeout.
FetchOutcomes == {"ok", "malformed", "non-2xx", "network error", "timeout"}

\* response.data of the fetch with this serial number from this URL.
responseData(url, serial, outcome) ==
    [url |-> url, serial |-> serial, wellFormed |-> outcome = "ok"]

\* A store that keeps the key set of an existing entry and renews its time.
storeRenewingTime(cache, baseUrl, jwks, now) ==
    IF baseUrl \in DOMAIN cache
    THEN [cache EXCEPT ![baseUrl].fetchedAt = now]
    ELSE MapSet(cache, baseUrl, [jwks |-> jwks, fetchedAt |-> now])

\* jwksCache.set(baseUrl, { jwks, fetchedAt: Date.now() })
store(cache, baseUrl, jwks, now) ==
    MapSet(cache, baseUrl, [jwks |-> jwks, fetchedAt |-> now])

\* jose.createLocalJWKSet(jwks) and jose.jwtVerify(token, keySet, ...), and
\* the catch of decodeJwt: "ok" or the message of the AuthenticationError.
\* createLocalJWKSet throws on a value that is no key set.
verifyWith(token, jwks) ==
    IF ~jwks.wellFormed THEN InvalidToken ELSE decodeJwt(token, TRUE)

\* The messages of the AuthenticationErrors verifyRuntimeToken can throw.
AuthenticationErrors ==
    {MissingToken, KeyFetchFailed, TokenExpired, InvalidClaim,
     InvalidTokenSignature, InvalidToken}

\* The dispatcher's catch around verifyRuntimeToken: an AuthenticationError is
\* answered 401, any other error is rethrown to the outer catch, which
\* answers an Error with 500.
verificationStatus(result) ==
    IF result \in AuthenticationErrors THEN 401 ELSE 500

\* const apiBaseUrl = payload?.api?.base_url || this.config.baseUrl
apiBaseUrl(base_url, configBaseUrl) == OrElse(base_url, configBaseUrl)

\* config.baseUrl of the SDK whose deliveries are verified.
ConfiguredBaseUrl == <<"a">>

\* config.workspaceToken of the SDK.
ConfiguredWorkspaceToken == <<"w">>

\* A property of the payload that holds an object: absent, or the map of the
\* object's own properties.
AbsentObject == [defined |-> FALSE, own |-> <<>>]
Object(own) == [defined |-> TRUE, own |-> own]

\* payload?.secrets || {}
orEmptyObject(secrets) == IF secrets.defined THEN secrets.own ELSE <<>>

\* new KiketHttpClient(baseUrl, workspaceToken, eventVersion, extensionApiKey)
KiketHttpClient(baseUrl, workspaceToken, eventVersion, extensionApiKey) ==
    [baseUrl |-> baseUrl, workspaceToken |-> workspaceToken,
     eventVersion |-> eventVersion, extensionApiKey |-> extensionApiKey]

\* ------------------------------------------------------------- dispatches

NoDelivery ==
    [event |-> undefined, pathVersion |-> undefined, headerVersion |-> undefined,
     queryVersion |-> undefined, body |-> "json", runtime_token |-> "absent",
     scopes |-> undefined, claims |-> NoClaims, signature |-> "absent",
     authentication_scopes |-> undefined, base_url |-> undefined,
     secrets |-> AbsentObject]

\* No KiketHttpClient was constructed.
NoClient ==
    [baseUrl |-> undefined, workspaceToken |-> undefined, eventVersion |-> undefined,
     extensionApiKey |-> "absent"]

\* No call of telemetry.record in progress.
NoRecording == [pending |-> <<>>, result |-> "none", error |-> NoError]

Idle ==
    [pc |-> "Idle", req |-> NoDelivery, jwtPayload |-> NoJwt,
     jwks |-> "none", keySet |-> NoJwks, rec |-> NoRecording,
     requestedVersion |-> undefined, metadata |-> null,
     auth |-> NoAuth, client |-> "none", clientArgs |-> NoClient,
     payloadSecrets |-> <<>>, closed |-> 0, handlerCalls |-> 0,
     contextVersion |-> undefined, outcome |-> "none", result |-> "none",
     thrown |-> NoError, error |-> NoError,
     telemetry |-> <<>>, sinks |-> <<>>, status |-> 0, body |-> NoBody,
     sent |-> 0, stages |-> <<>>, log |-> <<>>]

Terminal == {"Completed", "Rejected", "Failed"}

\* res.status(status).json(body), ending the dispatch in state pc.
Send(d, pc, status, body) ==
    [d EXCEPT !.pc = pc, !.status = status, !.body = body, !.sent = @ + 1,
              !.log = Append(@, "sent")]

\* Entering a non-terminal state.
Enter(d, pc) == [d EXCEPT !.pc = pc, !.stages = Append(@, pc)]

\* --------------------------------------------------------------- actions

\* KiketSDK.register / KiketHandlerRegistry.register
Register(event, handler, version, requiredScopes) ==
    /\ nRegister < MaxRegister
    /\ handlers' = MapSet(handlers, makeKey(event, version),
                          [event |-> event, version |-> version,
                           handler |-> handler, requiredScopes |-> requiredScopes])
    /\ keys' = keysAfterSet(keys, makeKey(event, version))
    /\ registered' = MapSet(registered, <<event, version>>,
                            [event |-> event, version |-> version,
                             handler |-> handler, requiredScopes |-> requiredScopes])
    /\ nRegister' = nRegister + 1
    /\ UNCHANGED <<disp, reporter, callVars, jwksVars>>

\* A dispatcher that keeps the request in a field the dispatches share.
ReceiveShared(i, delivery) ==
    /\ disp[i].pc = "Idle"
    /\ disp' = [j \in DOMAIN disp |->
                  IF j = i THEN Enter([Idle EXCEPT !.req = delivery], "Received")
                  ELSE [disp[j] EXCEPT !.req = delivery]]
    /\ UNCHANGED <<regVars, reporter, callVars, jwksVars>>

\* A delivery reaches one of the two webhook routes.
Receive(i, delivery) ==
    /\ disp[i].pc = "Idle"
    /\ disp' = [disp EXCEPT ![i] = Enter([Idle EXCEPT !.req = delivery], "Received")]
    /\ UNCHANGED <<regVars, reporter, callVars, jwksVars>>

\* express.json parses the body before dispatchHandler runs; its error goes to
\* the application's error handler, which answers 500.
ParseBody(i) ==
    /\ disp[i].pc = "Received"
    /\ disp' = [disp EXCEPT ![i] =
          IF disp[i].req.body = "malformed"
          THEN Send(disp[i], "Failed", 500, ErrorBody(ParseFailed))
          ELSE Enter(disp[i], "BodyParsed")]
    /\ UNCHANGED <<regVars, reporter, callVars, jwksVars>>

\* The key set a dispatch has: usable, no key set, or none (the fetch failed).
keySetStatus(jwks) == IF jwks.wellFormed THEN "ok" ELSE "malformed"

\* verifyRuntimeToken(payload, apiBaseUrl) up to its first await: the token
\* check and the cache lookup of fetchJwks, which returns a fresh entry or
\* starts axios.get.  A missing token is answered 401.
Authenticate(i) ==
    /\ disp[i].pc = "BodyParsed"
    /\ LET d == disp[i]
           cached == cachedEntry(jwksCache,
                                 apiBaseUrl(d.req.base_url, ConfiguredBaseUrl))
       IN disp' = [disp EXCEPT ![i] =
            IF d.req.runtime_token = "absent"
            THEN Send(d, "Rejected", 401,
                      ErrorBody(verifyRuntimeToken(d.req.runtime_token, TRUE)))
            ELSE IF isFresh(cached, clock)
            THEN [d EXCEPT !.pc = "Verifying", !.keySet = cached.jwks,
                           !.jwks = keySetStatus(cached.jwks)]
            ELSE [d EXCEPT !.pc = "Fetching"]]
    /\ UNCHANGED <<regVars, reporter, callVars, jwksVars>>

\* axios.get of fetchJwks settles: response.data is stored in the cache under
\* the base URL and returned, or the error becomes 'Failed to fetch JWKS'.
FetchJwks(i, outcome) ==
    /\ disp[i].pc = "Fetching"
    /\ LET d == disp[i]
           baseUrl == apiBaseUrl(d.req.base_url, ConfiguredBaseUrl)
           jwks == responseData(jwksUrl(baseUrl), 0, outcome)
       IN IF outcome \in {"ok", "malformed"}
          THEN /\ jwksCache' = store(jwksCache, baseUrl, jwks, clock)
               /\ disp' = [disp EXCEPT ![i] =
                     [d EXCEPT !.pc = "Verifying", !.keySet = jwks,
                               !.jwks = keySetStatus(jwks)]]
          ELSE /\ disp' = [disp EXCEPT ![i] =
                     [d EXCEPT !.pc = "Verifying", !.jwks = "failed"]]
               /\ UNCHANGED jwksCache
    /\ UNCHANGED <<regVars, reporter, callVars, clock, verifs, remote>>

\* The rest of decodeJwt, jose.jwtVerify with the key set, and the
\* dispatcher's catch: an AuthenticationError is answered 401.
VerifyToken(i) ==
    /\ disp[i].pc = "Verifying"
    /\ LET d == disp[i]
           outcome == IF d.jwks = "failed"
                      THEN verifyRuntimeToken(d.req.runtime_token, FALSE)
                      ELSE verifyWith(d.req.runtime_token, d.keySet)
       IN disp' = [disp EXCEPT ![i] =
            IF outcome # "ok"
            THEN Send(d, "Rejected", 401, ErrorBody(outcome))
            ELSE Enter([d EXCEPT !.jwtPayload =
                           [verified |-> TRUE, scopes |-> d.req.scopes,
                            claims |-> d.req.claims]],
                       "Authenticated")]
    /\ UNCHANGED <<regVars, reporter, callVars, jwksVars>>

\* Determine version; a TypeError thrown by coerceOptional goes to the outer
\* catch, which answers 500.
ResolveVersion(i) ==
    /\ disp[i].pc = "Authenticated"
    /\ LET d == disp[i]
           requestedVersion ==
               requestedVersionOf(d.req.pathVersion, d.req.headerVersion,
                                  d.req.queryVersion)
       IN disp' = [disp EXCEPT ![i] =
            IF requestedVersion = ThrewTypeError
            THEN Send([d EXCEPT !.error = TrimTypeError], "Failed",
                      catchStatus(TrimTypeError), catchBody(TrimTypeError))
            ELSE IF Falsy(requestedVersion)
            THEN Send(d, "Rejected", 400, ErrorBody(VersionRequired))
            ELSE Enter([d EXCEPT !.requestedVersion = requestedVersion],
                       "VersionResolved")]
    /\ UNCHANGED <<regVars, reporter, callVars, jwksVars>>

\* The handler the dispatcher uses for an event and a requested version: the
\* exact registration, else the one at the alternate version, else null.
resolveHandler(h, event, requestedVersion) ==
    IF get(h, event, requestedVersion) # null
    THEN get(h, event, requestedVersion)
    ELSE get(h, event, alternateVersion(requestedVersion))

\* Registry lookup with the version normalisation fallback.
LookupHandler(i) ==
    /\ disp[i].pc = "VersionResolved"
    /\ LET d == disp[i]
           metadata == resolveHandler(handlers, d.req.event, d.requestedVersion)
       IN disp' = [disp EXCEPT ![i] =
            IF metadata = null
            THEN Send(d, "Rejected", 404,
                      [NoBody EXCEPT !.error = NoHandlerRegistered,
                                     !.event = d.req.event,
                                     !.version = d.requestedVersion])
            ELSE Enter([d EXCEPT !.metadata = metadata], "HandlerResolved")]
    /\ UNCHANGED <<regVars, reporter, callVars, jwksVars>>

\* A scopes check and an AuthContext that prefer the body's
\* authentication.scopes to the token's scopes claim.
AuthorizeByBodyScopes(i) ==
    /\ disp[i].pc = "HandlerResolved"
    /\ LET d == disp[i]
           built == buildAuthContext(d.jwtPayload, d.req.runtime_token)
           authContext ==
               [built EXCEPT !.scopes =
                   IF d.req.authentication_scopes = undefined THEN @
                   ELSE d.req.authentication_scopes]
           requiredScopes == d.metadata.requiredScopes
           missing == checkScopes(requiredScopes, authContext.scopes)
           withAuth == [d EXCEPT !.auth = authContext]
       IN disp' = [disp EXCEPT ![i] =
            IF Len(requiredScopes) > 0 /\ Len(missing) > 0
            THEN Send(withAuth, "Rejected", 403,
                      [NoBody EXCEPT !.error = InsufficientScopes,
                                     !.required_scopes = requiredScopes,
                                     !.missing_scopes = missing])
            ELSE Enter(withAuth, "Authorized")]
    /\ UNCHANGED <<regVars, reporter, callVars, jwksVars>>

\* buildAuthContext, then the required-scopes check.
Authorize(i) ==
    /\ disp[i].pc = "HandlerResolved"
    /\ LET d == disp[i]
           authContext == buildAuthContext(d.jwtPayload, d.req.runtime_token)
           requiredScopes == d.metadata.requiredScopes
           missing == checkScopes(requiredScopes, authContext.scopes)
           withAuth == [d EXCEPT !.auth = authContext]
       IN disp' = [disp EXCEPT ![i] =
            IF Len(requiredScopes) > 0 /\ Len(missing) > 0
            THEN Send(withAuth, "Rejected", 403,
                      [NoBody EXCEPT !.error = InsufficientScopes,
                                     !.required_scopes = requiredScopes,
                                     !.missing_scopes = missing])
            ELSE Enter(withAuth, "Authorized")]
    /\ UNCHANGED <<regVars, reporter, callVars, jwksVars>>

\* Create the client from the delivery's API base URL, the configured
\* workspace token, the registration's version and the AuthContext's runtime
\* token; take the payload's secrets; build the context; call the handler.
Invoke(i) ==
    /\ disp[i].pc = "Authorized"
    /\ LET d == disp[i]
           client == KiketHttpClient(apiBaseUrl(d.req.base_url, ConfiguredBaseUrl),
                                     ConfiguredWorkspaceToken, d.metadata.version,
                                     d.auth.runtimeToken)
       IN disp' = [disp EXCEPT ![i] =
             Enter([d EXCEPT !.client = "open",
                             !.clientArgs = client,
                             !.payloadSecrets = orEmptyObject(d.req.secrets),
                             !.contextVersion = d.metadata.version,
                             !.handlerCalls = @ + 1],
                   "Invoking")]
    /\ UNCHANGED <<regVars, reporter, callVars, jwksVars>>

\* The handler returns, or its promise resolves.
HandlerReturns(i, result) ==
    /\ disp[i].pc = "Invoking"
    /\ disp' = [disp EXCEPT ![i] = [disp[i] EXCEPT !.pc = "Returned",
                                                   !.outcome = "returned",
                                                   !.result = result,
                                                   !.log = Append(@, "completed")]]
    /\ UNCHANGED <<regVars, reporter, callVars, jwksVars>>

\* The handler throws, or its promise rejects.
HandlerThrows(i, error) ==
    /\ disp[i].pc = "Invoking"
    /\ disp' = [disp EXCEPT ![i] = [disp[i] EXCEPT !.pc = "Threw",
                                                   !.outcome = "threw",
                                                   !.thrown = error,
                                                   !.error = error,
                                                   !.log = Append(@, "completed")]]
    /\ UNCHANGED <<regVars, reporter, callVars, jwksVars>>

\* The record telemetry.record is called with.
TelemetryCall(d, status, error) ==
    [event |-> d.req.event, version |-> d.metadata.version, status |-> status,
     errorMessage |-> IF status = "error" THEN errorMessageOf(error) ELSE "undefined",
     errorClass |-> IF status = "error" THEN errorClassOf(error) ELSE "undefined"]

\* The first sink of a list of sinks, as a list, and the others.
First(sinks) == IF sinks = <<>> THEN <<>> ELSE <<Head(sinks)>>
Rest(sinks) == IF sinks = <<>> THEN <<>> ELSE Tail(sinks)

\* The dispatch after it called telemetry.record with this status: the record
\* is built and the first sink is attempted before record yields.
Recorded(d, status, r) ==
    [d EXCEPT !.telemetry = Append(@, TelemetryCall(d, status, d.error)),
              !.sinks = @ \o First(r.sinks),
              !.rec = [pending |-> Rest(r.sinks), result |-> r.result,
                       error |-> r.error],
              !.log = Append(@, "record")]

\* this.telemetry.record(event, metadata.version, 'ok', durationMs) is called
\* and awaited.
RecordOk(i, hookOutcome, postOutcome) ==
    /\ disp[i].pc = "Returned"
    /\ disp' = [disp EXCEPT ![i] =
          [Recorded(disp[i], "ok", record(reporter, hookOutcome, postOutcome))
              EXCEPT !.pc = "RecordingOk"]]
    /\ UNCHANGED <<regVars, reporter, callVars, jwksVars>>

\* The sink record awaits has settled and record attempts its next sink.
NextSink(i) ==
    /\ disp[i].pc \in {"RecordingOk", "RecordingError"}
    /\ disp[i].rec.pending # <<>>
    /\ disp' = [disp EXCEPT ![i] =
          [disp[i] EXCEPT !.sinks = @ \o First(disp[i].rec.pending),
                          !.rec.pending = Rest(@)]]
    /\ UNCHANGED <<regVars, reporter, callVars, jwksVars>>

\* record's promise settles in the try block: the dispatcher goes on to the
\* response; a rejection would be caught by the catch block like a handler's
\* error.
AfterRecordOk(i) ==
    /\ disp[i].pc = "RecordingOk"
    /\ disp[i].rec.pending = <<>>
    /\ disp[i].rec.result # "pending"
    /\ LET d == [disp[i] EXCEPT !.rec = NoRecording]
           r == disp[i].rec
       IN disp' = [disp EXCEPT ![i] =
            IF r.result = "resolved"
            THEN [d EXCEPT !.pc = "Responding"]
            ELSE [d EXCEPT !.pc = "Threw", !.error = r.error]]
    /\ UNCHANGED <<regVars, reporter, callVars, jwksVars>>

\* res.json(result || { ok: true }); a value that cannot be serialised throws
\* inside the try block, before anything is sent.
Respond(i) ==
    /\ disp[i].pc = "Responding"
    /\ disp' = [disp EXCEPT ![i] =
          IF Serialisable(OrAck(disp[i].result))
          THEN Send(disp[i], "Closing", 200,
                    [NoBody EXCEPT !.value = OrAck(disp[i].result)])
          ELSE [disp[i] EXCEPT !.pc = "Threw", !.error = StringifyError]]
    /\ UNCHANGED <<regVars, reporter, callVars, jwksVars>>

\* The catch block: telemetry.record(event, metadata.version, 'error', ...) is
\* called and awaited.
RecordError(i, hookOutcome, postOutcome) ==
    /\ disp[i].pc = "Threw"
    /\ disp' = [disp EXCEPT ![i] =
          [Recorded(disp[i], "error", record(reporter, hookOutcome, postOutcome))
              EXCEPT !.pc = "RecordingError"]]
    /\ UNCHANGED <<regVars, reporter, callVars, jwksVars>>

\* A catch block that calls the handler again once the outcome is recorded.
RethrowRetrying(i) ==
    /\ disp[i].pc = "RecordingError"
    /\ disp[i].rec.pending = <<>>
    /\ disp[i].rec.result # "pending"
    /\ LET d == [disp[i] EXCEPT !.rec = NoRecording]
       IN disp' = [disp EXCEPT ![i] =
            IF d.handlerCalls = 1
            THEN [d EXCEPT !.pc = "Invoking", !.handlerCalls = @ + 1]
            ELSE [d EXCEPT !.pc = "Closing"]]
    /\ UNCHANGED <<regVars, reporter, callVars, jwksVars>>

\* record's promise settles in the catch block: throw error; a rejection of
\* record would replace the error being rethrown.
Rethrow(i) ==
    /\ disp[i].pc = "RecordingError"
    /\ disp[i].rec.pending = <<>>
    /\ disp[i].rec.result # "pending"
    /\ LET d == [disp[i] EXCEPT !.rec = NoRecording]
           r == disp[i].rec
       IN disp' = [disp EXCEPT ![i] =
            IF r.result = "resolved"
            THEN [d EXCEPT !.pc = "Closing"]
            ELSE [d EXCEPT !.pc = "Closing", !.error = r.error]]
    /\ UNCHANGED <<regVars, reporter, callVars, jwksVars>>

\* A finally block that closes the client only when no error is pending.
closeUnlessFailed(d) ==
    IF d.error = NoError THEN [d EXCEPT !.client = "closed", !.closed = @ + 1] ELSE d

\* await client.close()
close(d) == [d EXCEPT !.client = "closed", !.closed = @ + 1]

\* The error of a client.close() that rejects.
CloseFailed == [isError |-> TRUE, class |-> "Error", message |-> "Close failed"]

\* A finally block whose client.close() rejects: the outer catch is entered
\* even after the success response was sent.
CloseRejecting(i) ==
    /\ disp[i].pc = "Closing"
    /\ LET d == close(disp[i])
       IN disp' = [disp EXCEPT ![i] =
            [d EXCEPT !.pc = "Rethrown",
                      !.error = IF @ = NoError THEN CloseFailed ELSE @]]
    /\ UNCHANGED <<regVars, reporter, callVars, jwksVars>>

\* finally { await client.close() }: the client is closed; the dispatch is
\* over when no error is pending, otherwise the error goes on to the outer
\* catch once close has settled.
Close(i) ==
    /\ disp[i].pc = "Closing"
    /\ LET d == close(disp[i])
       IN disp' = [disp EXCEPT ![i] =
            IF d.error = NoError
            THEN [d EXCEPT !.pc = "Completed"]
            ELSE [d EXCEPT !.pc = "Rethrown"]]
    /\ UNCHANGED <<regVars, reporter, callVars, jwksVars>>

\* The outer catch: 400 for a KiketSDKError, 500 otherwise.
OuterCatch(i) ==
    /\ disp[i].pc = "Rethrown"
    /\ disp' = [disp EXCEPT ![i] =
          Send(disp[i], "Failed", catchStatus(disp[i].error),
               catchBody(disp[i].error))]
    /\ UNCHANGED <<regVars, reporter, callVars, jwksVars>>

\* The request ends: its per-request state is discarded.
Finish(i) ==
    /\ disp[i].pc \in Terminal
    /\ disp' = [disp EXCEPT ![i] = Idle]
    /\ UNCHANGED <<regVars, reporter, callVars, jwksVars>>

\* The steps of dispatchHandler after a delivery was received, with a handler
\* whose outcome is one of results or one of throwables, and telemetry sinks
\* whose outcomes are among hookOutcomes and postOutcomes.
Step(i, results, throwables, hookOutcomes, postOutcomes) ==
    \/ ParseBody(i)
    \/ Authenticate(i)
    \/ \E outcome \in FetchOutcomes : FetchJwks(i, outcome)
    \/ VerifyToken(i)
    \/ ResolveVersion(i)
    \/ LookupHandler(i)
    \/ Authorize(i)
    \/ Invoke(i)
    \/ \E result \in results : HandlerReturns(i, result)
    \/ \E error \in throwables : HandlerThrows(i, error)
    \/ \E hookOutcome \in hookOutcomes, postOutcome \in postOutcomes :
          RecordOk(i, hookOutcome, postOutcome)
    \/ NextSink(i)
    \/ AfterRecordOk(i)
    \/ Respond(i)
    \/ \E hookOutcome \in hookOutcomes, postOutcome \in postOutcomes :
          RecordError(i, hookOutcome, postOutcome)
    \/ Rethrow(i)
    \/ Close(i)
    \/ OuterCatch(i)
    \/ Finish(i)

\* No call of the registry made.
NoRegistryCall ==
    [op |-> "none", event |-> undefined, version |-> undefined,
     metadata |-> null, names |-> <<>>, all |-> <<>>]

\* metadata = registry.get(event, version)
CallGet(event, version) ==
    /\ regCall' = [NoRegistryCall EXCEPT !.op = "get", !.event = event,
                                         !.version = version,
                                         !.metadata = get(handlers, event, version)]
    /\ UNCHANGED <<regVars, disp, reporter, scopeCall, recordCall, sigCall, helperCall, jwksVars>>

\* names = registry.eventNames()
CallEventNames ==
    /\ regCall' = [NoRegistryCall EXCEPT !.op = "eventNames",
                                         !.names = eventNames(handlers, keys)]
    /\ UNCHANGED <<regVars, disp, reporter, scopeCall, recordCall, sigCall, helperCall, jwksVars>>

\* list = registry.all()
CallAll ==
    /\ regCall' = [NoRegistryCall EXCEPT !.op = "all", !.all = all(handlers, keys)]
    /\ UNCHANGED <<regVars, disp, reporter, scopeCall, recordCall, sigCall, helperCall, jwksVars>>

\* ---------------------------------------------------------- context helpers

\* Names every plain object inherits from Object.prototype.
ObjectPrototypeNames == {"constructor", "toString"}

\* The member of Object.prototype with this name: a function.
Inherited(name) == <<"[Function]">>

\* obj[key] for a plain object held as the map of its own properties: the own
\* property, else the member inherited from Object.prototype, else undefined.
getProperty(obj, key) ==
    IF key \in DOMAIN obj THEN obj[key]
    ELSE IF key \in ObjectPrototypeNames THEN Inherited(key)
    ELSE undefined

\* A secret helper that reads the environment first.
secretEnvFirst(payloadSecrets, env, key) ==
    OrElse(getProperty(env, key), getProperty(payloadSecrets, key))

\* The function buildSecretHelper(payloadSecrets) returns, applied to key:
\* payloadSecrets[key] || process.env[key]
secretHelper(payloadSecrets, env, key) ==
    OrElse(getProperty(payloadSecrets, key), getProperty(env, key))

\* new ScopeError(requiredScopes, availableScopes)
ScopeError(requiredScopes, availableScopes) ==
    [isError |-> TRUE, class |-> "ScopeError", required |-> requiredScopes,
     available |-> availableScopes]

\* No error thrown by a helper.
NoHelperError ==
    [isError |-> FALSE, class |-> "none", required |-> <<>>, available |-> <<>>]

\* A scope checker that asks for the first required scope only.
requireFirstScope(availableScopes, requiredScopes) ==
    IF requiredScopes # <<>> /\ ~includes(availableScopes, "*")
       /\ ~includes(availableScopes, Head(requiredScopes))
    THEN ScopeError(requiredScopes, availableScopes)
    ELSE NoHelperError

\* The function buildScopeChecker(availableScopes) returns, applied to
\* requiredScopes: the ScopeError it throws, or NoHelperError when it returns.
requireScopes(availableScopes, requiredScopes) ==
    IF Len(checkScopes(requiredScopes, availableScopes)) > 0
    THEN ScopeError(requiredScopes, availableScopes)
    ELSE NoHelperError

\* No call of a context helper made.
NoHelperCall ==
    [op |-> "none", done |-> FALSE, payloadSecrets |-> <<>>, env |-> <<>>,
     key |-> "none", value |-> undefined, granted |-> <<>>, required |-> <<>>,
     error |-> NoHelperError]

\* value = context.secret(key)
CallSecret ==
    /\ helperCall.op = "secret" /\ ~helperCall.done
    /\ helperCall' = [helperCall EXCEPT !.done = TRUE,
          !.value = secretHelper(helperCall.payloadSecrets, helperCall.env, helperCall.key)]
    /\ UNCHANGED <<regVars, disp, reporter, scopeCall, recordCall, sigCall, regCall,
                   jwksVars>>

\* context.requireScopes(...requiredScopes)
CallRequireScopes ==
    /\ helperCall.op = "requireScopes" /\ ~helperCall.done
    /\ helperCall' = [helperCall EXCEPT !.done = TRUE,
          !.error = requireScopes(helperCall.granted, helperCall.required)]
    /\ UNCHANGED <<regVars, disp, reporter, scopeCall, recordCall, sigCall, regCall,
                   jwksVars>>

\* An application of checkScopes.
NoCall == [done |-> FALSE, required |-> <<>>, granted |-> <<>>, missing |-> <<>>]

\* missing = this.checkScopes(requiredScopes, availableScopes)
CallCheckScopes ==
    /\ ~scopeCall.done
    /\ scopeCall' = [scopeCall EXCEPT !.done = TRUE,
                         !.missing = checkScopes(scopeCall.required, scopeCall.granted)]
    /\ UNCHANGED <<regVars, disp, reporter, recordCall, sigCall, regCall, helperCall, jwksVars>>

\* No call of record made yet.
NoRecord ==
    [started |-> FALSE, done |-> FALSE, status |-> "none",
     hookOutcome |-> "none", postOutcome |-> "none", sinks |-> <<>>,
     pending |-> <<>>, result |-> "none", error |-> NoError]

\* reporter.record(event, version, status, durationMs, extras) is called, with
\* a feedback callback and a POST that end in hookOutcome and postOutcome: it
\* runs up to its first await, its promise pending.
CallRecord(status, hookOutcome, postOutcome) ==
    /\ ~recordCall.started
    /\ LET r == record(reporter, hookOutcome, postOutcome)
       IN recordCall' = [started |-> TRUE, done |-> FALSE, status |-> status,
                         hookOutcome |-> hookOutcome, postOutcome |-> postOutcome,
                         sinks |-> First(r.sinks), pending |-> Rest(r.sinks),
                         result |-> "pending", error |-> NoError]
    /\ UNCHANGED <<regVars, disp, reporter, scopeCall, sigCall, regCall, helperCall, jwksVars>>

\* The sink the call awaits has settled and its next sink is attempted.
CallNextSink ==
    /\ recordCall.started /\ ~recordCall.done
    /\ recordCall.pending # <<>>
    /\ recordCall' = [recordCall EXCEPT !.sinks = @ \o First(recordCall.pending),
                                        !.pending = Rest(@)]
    /\ UNCHANGED <<regVars, disp, reporter, scopeCall, sigCall, regCall, helperCall, jwksVars>>

\* The last sink has settled: the promise of record settles.
RecordSettles ==
    /\ recordCall.started /\ ~recordCall.done
    /\ recordCall.pending = <<>>
    /\ LET r == record(reporter, recordCall.hookOutcome, recordCall.postOutcome)
       IN /\ r.result # "pending"
          /\ recordCall' = [recordCall EXCEPT !.done = TRUE, !.result = r.result,
                                              !.error = r.error]
    /\ UNCHANGED <<regVars, disp, reporter, scopeCall, sigCall, regCall, helperCall, jwksVars>>

\* ------------------------------------------------------ verifications

\* A verification that is not running.
IdleVerif ==
    [pc |-> "idle", baseUrl |-> <<>>, token |-> "absent", serial |-> 0,
     fetched |-> FALSE, outcome |-> "none", jwks |-> NoJwks, result |-> "none"]

\* verifyRuntimeToken(payload, baseUrl) up to the first await that leaves the
\* event loop: the token check, the cache lookup of fetchJwks and, on a fresh
\* entry, the verification with the cached key set; otherwise axios.get starts.
StartVerify(id, baseUrl, token) ==
    /\ verifs[id].pc = "idle"
    /\ LET cached == cachedEntry(jwksCache, baseUrl)
           v == [IdleVerif EXCEPT !.baseUrl = baseUrl, !.token = token]
       IN IF token = "absent"
          THEN /\ verifs' = [verifs EXCEPT ![id] =
                     [v EXCEPT !.pc = "done", !.result = MissingToken]]
               /\ UNCHANGED remote
          ELSE IF isFresh(cached, clock)
          THEN /\ verifs' = [verifs EXCEPT ![id] =
                     [v EXCEPT !.pc = "done", !.jwks = cached.jwks,
                               !.result = verifyWith(token, cached.jwks)]]
               /\ UNCHANGED remote
          ELSE /\ remote.nFetch < MaxFetch
               /\ verifs' = [verifs EXCEPT ![id] =
                     [v EXCEPT !.pc = "fetching", !.fetched = TRUE,
                               !.serial = remote.nFetch + 1]]
               /\ remote' = [remote EXCEPT !.nFetch = @ + 1]
    /\ UNCHANGED <<regVars, disp, reporter, callVars, jwksCache, clock>>

\* The dispatcher's verifyRuntimeToken(payload, apiBaseUrl) for a delivery whose
\* body carries this api.base_url (undefined when it carries none) and this
\* runtime token, in an SDK configured with configBaseUrl.
VerifyDelivery(id, base_url, configBaseUrl, token) ==
    StartVerify(id, apiBaseUrl(base_url, configBaseUrl), token)

\* axios.get settles: the response's data is stored and used, or the error
\* becomes the AuthenticationError 'Failed to fetch JWKS'.
CompleteFetch(id, outcome) ==
    /\ verifs[id].pc = "fetching"
    /\ LET v == verifs[id]
           jwks == responseData(jwksUrl(v.baseUrl), v.serial, outcome)
       IN IF outcome \in {"ok", "malformed"}
          THEN /\ jwksCache' = store(jwksCache, v.baseUrl, jwks, clock)
               /\ remote' = [remote EXCEPT !.stores = @ \cup
                     {[baseUrl |-> v.baseUrl, jwks |-> jwks, fetchedAt |-> clock]}]
               /\ verifs' = [verifs EXCEPT ![id] =
                     [v EXCEPT !.pc = "done", !.outcome = outcome, !.jwks = jwks,
                               !.result = verifyWith(v.token, jwks)]]
          ELSE /\ verifs' = [verifs EXCEPT ![id] =
                     [v EXCEPT !.pc = "done", !.outcome = outcome,
                               !.result = KeyFetchFailed]]
               /\ UNCHANGED <<jwksCache, remote>>
    /\ UNCHANGED <<regVars, disp, reporter, callVars, clock>>

\* The caller has the result of verifyRuntimeToken.
ReturnVerify(id) ==
    /\ verifs[id].pc = "done"
    /\ verifs' = [verifs EXCEPT ![id] = IdleVerif]
    /\ UNCHANGED <<regVars, disp, reporter, callVars, jwksCache, clock, remote>>

\* clearJwksCache()
clearJwksCache ==
    /\ jwksCache # <<>>
    /\ jwksCache' = <<>>
    /\ UNCHANGED <<regVars, disp, reporter, callVars, clock, verifs, remote>>

\* Time passes.
Tick(delta) ==
    /\ remote.ticks < MaxTicks
    /\ clock' = clock + delta
    /\ remote' = [remote EXCEPT !.ticks = @ + 1]
    /\ UNCHANGED <<regVars, disp, reporter, callVars, jwksCache, verifs>>

\* The verifications that can run at a time.
Verifiers == {1, 2}

\* An empty cache, no verification running, nothing fetched.
InitJwks ==
    /\ jwksCache = <<>>
    /\ clock = 0
    /\ verifs = [id \in Verifiers |-> IdleVerif]
    /\ remote = [nFetch |-> 0, stores |-> {}, ticks |-> 0]

\* Nothing signed.
NoSigned == [secret |-> undefined, body |-> <<>>, timestamp |-> 0]

\* No call of verifySignature made yet, for these arguments.
NoVerify(signed, secret, body, headers, now) ==
    [done |-> FALSE, signed |-> signed, secret |-> secret, body |-> body,
     headers |-> headers, now |-> now, error |-> NoError, status |-> 0]

\* verifySignature(this.config.webhookSecret, rawBody, req.headers), and the
\* dispatcher's catch around it.
CallVerifySignature ==
    /\ ~sigCall.done
    /\ LET error == verifySignature(sigCall.secret, sigCall.body, sigCall.headers,
                                    sigCall.now)
       IN sigCall' = [sigCall EXCEPT !.done = TRUE, !.error = error,
                                     !.status = signatureStatus(error)]
    /\ UNCHANGED <<regVars, disp, reporter, scopeCall, recordCall, regCall, helperCall, jwksVars>>

\* ------------------------------------------------------- specifications

\* resolveConfig's telemetryUrl when neither the configuration nor the
\* environment gives one: `${resolvedBaseUrl}/api/v1/ext`.
DefaultTelemetryUrl == <<"h", "/", "ext">>

\* The state after new KiketSDK(config): nothing registered, nothing received.
Init ==
    /\ handlers = [k \in {} |-> null]
    /\ registered = [k \in {} |-> null]
    /\ nRegister = 0
    /\ keys = <<>>
    /\ regCall = NoRegistryCall
    /\ helperCall = NoHelperCall
    /\ disp = [i \in {1} |-> Idle]
    /\ InitJwks
    /\ reporter = TelemetryReporter(TRUE, DefaultTelemetryUrl, TRUE, undefined)
    /\ scopeCall = NoCall
    /\ recordCall = NoRecord
    /\ sigCall = NoVerify(NoSigned, undefined, <<>>,
                          Headers(NoHeader, undefined, TRUE), 0)

\* Event names: "e" and "e:v".
Events == {<<"e">>, <<"e", ":", "v">>}

\* Registrations of the dispatch specification.
Registrations ==
    [event : {<<"e">>}, version : {<<"v", "1">>, <<"2">>}, handler : {"h1"},
     requiredScopes : {<<>>, <<"r", "w">>}]

\* Deliveries of the dispatch specification.
Deliveries ==
    { r \in [event : {<<"e">>, <<"u">>},
             pathVersion : {undefined, <<"1">>},
             headerVersion : {undefined, <<" ">>},
             queryVersion : {undefined, <<"v", "2">>},
             body : {"json", "malformed"},
             runtime_token : Tokens,
             scopes : {undefined, <<>>, <<"r">>, <<"w", "r">>, <<"*">>},
             claims : {NoClaims},
             signature : {"absent", "valid", "invalid"},
             authentication_scopes : {undefined},
     base_url : {undefined},
     secrets : {AbsentObject}] :
        /\ r.runtime_token # "valid" => r.scopes = undefined
        /\ r.headerVersion # undefined => r.pathVersion = undefined }

Next ==
    \/ \E r \in Registrations :
          Register(r.event, r.handler, r.version, r.requiredScopes)
    \/ \E d \in Deliveries : Receive(1, d)
    \/ Step(1, Results, Throwables, {"returns"}, {"2xx"})

Spec == Init /\ [][Next]_vars

\* Registrations of the version specification: both events at four versions.
VersionRegistrations ==
    [event : Events,
     version : {<<"1">>, <<"v", "1">>, <<"v", "2">>, <<"v", ":", "1">>},
     handler : {"h1"}, requiredScopes : {<<>>}]

\* Deliveries of the version specification: authenticated, with the version
\* in the path, the header or the query.
VersionDeliveries ==
    [event : Events,
     pathVersion : {undefined, <<" ">>, <<"1">>, <<" ", "v", "1", " ">>},
     headerVersion : {undefined, <<"v", "2">>},
     queryVersion : {undefined, <<>>, <<"v", ":", "1">>, NotAString},
     body : {"json"}, runtime_token : {"valid"}, scopes : {undefined},
     claims : {NoClaims}, signature : {"absent"},
     authentication_scopes : {undefined},
     base_url : {undefined},
     secrets : {AbsentObject}]

NextVersion ==
    \/ \E r \in VersionRegistrations :
          Register(r.event, r.handler, r.version, r.requiredScopes)
    \/ \E d \in VersionDeliveries : Receive(1, d)
    \/ Step(1, {"{result}"}, {HandlerFailed}, {"returns"}, {"2xx"})

SpecVersion == Init /\ [][NextVersion]_vars

\* Scope names, the wildcard among them.
ScopeNames == {"r", "w", "*"}

\* The lists over a set, up to a length.
ListsOf(S, n) == UNION {[1..k -> S] : k \in 0..n}

InitScopes ==
    /\ handlers = [k \in {} |-> null]
    /\ registered = [k \in {} |-> null]
    /\ nRegister = 0
    /\ keys = <<>>
    /\ regCall = NoRegistryCall
    /\ helperCall = NoHelperCall
    /\ disp = [i \in {1} |-> Idle]
    /\ InitJwks
    /\ reporter = TelemetryReporter(TRUE, DefaultTelemetryUrl, TRUE, undefined)
    /\ recordCall = NoRecord
    /\ sigCall = NoVerify(NoSigned, undefined, <<>>,
                          Headers(NoHeader, undefined, TRUE), 0)
    /\ scopeCall \in [done : {FALSE}, required : ListsOf(ScopeNames, MaxScopes),
                      granted : ListsOf(ScopeNames, MaxScopes), missing : {<<>>}]

NextScopes == CallCheckScopes

SpecScopes == InitScopes /\ [][NextScopes]_vars

\* The values of KIKET_SDK_TELEMETRY_OPTOUT: unset, "", "1", "0", "T".
OptOutValues == {undefined, <<>>, <<"1">>, <<"0">>, <<"T">>}

\* The telemetryUrl arguments: none, "", "h", "h/", "h/telemetry", "h/telemetry/".
TelemetryUrls ==
    {undefined, <<>>, <<"h">>, <<"h", "/">>, <<"h", "/", "telemetry">>,
     <<"h", "/", "telemetry", "/">>}

\* A reporter constructed with any arguments, and one call of record.
InitTelemetry ==
    /\ handlers = [k \in {} |-> null]
    /\ registered = [k \in {} |-> null]
    /\ nRegister = 0
    /\ keys = <<>>
    /\ regCall = NoRegistryCall
    /\ helperCall = NoHelperCall
    /\ disp = [i \in {1} |-> Idle]
    /\ InitJwks
    /\ reporter \in {TelemetryReporter(enabled, telemetryUrl, feedbackHook, env) :
                        enabled \in BOOLEAN, telemetryUrl \in TelemetryUrls,
                        feedbackHook \in BOOLEAN, env \in OptOutValues}
    /\ scopeCall = NoCall
    /\ recordCall = NoRecord
    /\ sigCall = NoVerify(NoSigned, undefined, <<>>,
                          Headers(NoHeader, undefined, TRUE), 0)

NextTelemetry ==
    \/ \E status \in {"ok", "error"}, hookOutcome \in HookOutcomes,
          postOutcome \in PostOutcomes :
           CallRecord(status, hookOutcome, postOutcome)
    \/ CallNextSink
    \/ RecordSettles

SpecTelemetry == InitTelemetry /\ [][NextTelemetry]_vars

\* The SDK's reporter: telemetryEnabled and feedbackHook of the configuration,
\* the resolved telemetryUrl, and the environment at construction.
InitOutcome ==
    /\ handlers = [k \in {} |-> null]
    /\ registered = [k \in {} |-> null]
    /\ nRegister = 0
    /\ keys = <<>>
    /\ regCall = NoRegistryCall
    /\ helperCall = NoHelperCall
    /\ disp = [i \in {1} |-> Idle]
    /\ InitJwks
    /\ reporter \in {TelemetryReporter(enabled, DefaultTelemetryUrl, feedbackHook, env) :
                        enabled \in BOOLEAN, feedbackHook \in BOOLEAN,
                        env \in {undefined, <<"1">>}}
    /\ scopeCall = NoCall
    /\ recordCall = NoRecord
    /\ sigCall = NoVerify(NoSigned, undefined, <<>>,
                          Headers(NoHeader, undefined, TRUE), 0)

\* Deliveries of the outcome specification: with or without a valid token and
\* a version, for a registered or an unregistered event.
OutcomeDeliveries ==
    [event : {<<"e">>, <<"u">>}, pathVersion : {undefined, <<"1">>},
     headerVersion : {undefined}, queryVersion : {undefined},
     body : {"json"}, runtime_token : {"absent", "valid"},
     scopes : {undefined, <<"r">>}, claims : {NoClaims},
     signature : {"absent"},
     authentication_scopes : {undefined},
     base_url : {undefined},
     secrets : {AbsentObject}]

NextOutcome ==
    \/ \E r \in Registrations :
          Register(r.event, r.handler, r.version, r.requiredScopes)
    \/ \E d \in OutcomeDeliveries : Receive(1, d)
    \/ Step(1, Results, Throwables, HookOutcomes, PostOutcomes)

SpecOutcome == InitOutcome /\ [][NextOutcome]_vars

\* The steps of a dispatch whose feedback callback may stay pending.
StepLive == Step(1, Results, Throwables, HookBehaviours, PostOutcomes)

NextLive ==
    \/ \E r \in Registrations :
          Register(r.event, r.handler, r.version, r.requiredScopes)
    \/ \E d \in OutcomeDeliveries : Receive(1, d)
    \/ StepLive

\* The event loop runs every continuation that is ready: a dispatch that can
\* take a step takes one.  The handler settles, the key fetch and the POST
\* settle or time out; nothing makes the feedback callback's promise settle.
SpecLive == InitOutcome /\ [][NextLive]_vars /\ WF_vars(StepLive)

\* The times verifySignature is called at, in seconds.
Clock == {1000, 1001}

\* The offsets from now of the timestamps that are signed.
Offsets == {0 - (Window + 1), 0 - Window, 0 - 1, 0, Window, Window + 1}

\* Webhook secrets, and request bodies.
Secrets == {<<"k">>, <<"q">>}
Bodies == {<<>>, <<"x">>, <<"x", "y">>}

\* The signature header of a request, given the one generateSignature made:
\* that one, none, "", "bad", or a wrong string of the length of a digest.
SignaturesFor(generated) ==
    {generated, NoHeader, Text(0, "literal", <<>>, <<>>),
     Text(3, "literal", <<"b", "a", "d">>, <<>>),
     Text(DigestLength, "literal", <<"0">>, <<>>)}

\* The timestamp header of a request, given the one generateSignature made:
\* that one, none, "a", or that one followed by "x".
TimestampsFor(generated) == {generated, undefined, <<"a">>, generated \o <<"x">>}

\* A signature and a timestamp are generated for a secret, a body and a time
\* around now, and verifySignature is called once with that signature or
\* another, that timestamp or another, a secret and a body.
InitSignature ==
    /\ handlers = [k \in {} |-> null]
    /\ registered = [k \in {} |-> null]
    /\ nRegister = 0
    /\ keys = <<>>
    /\ regCall = NoRegistryCall
    /\ helperCall = NoHelperCall
    /\ disp = [i \in {1} |-> Idle]
    /\ InitJwks
    /\ reporter = TelemetryReporter(TRUE, DefaultTelemetryUrl, TRUE, undefined)
    /\ scopeCall = NoCall
    /\ recordCall = NoRecord
    /\ \E now \in Clock, offset \in Offsets, signingSecret \in Secrets,
          signedBody \in Bodies, lower \in BOOLEAN :
          LET generated == generateSignature(signingSecret, signedBody, now + offset)
          IN \E secret \in Secrets \cup {undefined, <<>>}, body \in Bodies,
                signature \in SignaturesFor(generated.signature),
                timestamp \in TimestampsFor(generated.timestamp) :
                sigCall = NoVerify([secret |-> signingSecret, body |-> signedBody,
                                    timestamp |-> now + offset],
                                   secret, body,
                                   Headers(signature, timestamp, lower), now)

NextSignature == CallVerifySignature

SpecSignature == InitSignature /\ [][NextSignature]_vars

\* The base URLs verifications are made against: "a" and "b/".
BaseUrls == {<<"a">>, <<"b", "/">>}

\* Verifications start, their fetches settle in any order, time passes and
\* the cache is cleared.
InitVerify ==
    /\ handlers = [k \in {} |-> null]
    /\ registered = [k \in {} |-> null]
    /\ nRegister = 0
    /\ keys = <<>>
    /\ regCall = NoRegistryCall
    /\ helperCall = NoHelperCall
    /\ disp = [i \in {1} |-> Idle]
    /\ InitJwks
    /\ reporter = TelemetryReporter(TRUE, DefaultTelemetryUrl, TRUE, undefined)
    /\ scopeCall = NoCall
    /\ recordCall = NoRecord
    /\ sigCall = NoVerify(NoSigned, undefined, <<>>,
                          Headers(NoHeader, undefined, TRUE), 0)

NextVerify ==
    \/ \E id \in Verifiers, baseUrl \in BaseUrls :
          StartVerify(id, baseUrl, "valid")
    \/ \E id \in Verifiers, outcome \in FetchOutcomes : CompleteFetch(id, outcome)
    \/ \E id \in Verifiers : ReturnVerify(id)
    \/ clearJwksCache
    \/ \E delta \in Deltas : Tick(delta)

SpecVerify == InitVerify /\ [][NextVerify]_vars

\* One verification at a time, of a token of every kind.
NextTokenKinds ==
    \/ \E baseUrl \in BaseUrls, token \in Tokens : StartVerify(1, baseUrl, token)
    \/ \E outcome \in FetchOutcomes : CompleteFetch(1, outcome)
    \/ ReturnVerify(1)
    \/ clearJwksCache
    \/ \E delta \in Deltas : Tick(delta)

SpecTokenKinds == InitVerify /\ [][NextTokenKinds]_vars

\* What deliveries carry as api.base_url: nothing, an empty string, the
\* platform's URL, another host's URL.
BodyBaseUrls == {undefined, <<>>, <<"a">>, <<"b", "/">>}

\* How the server behind a base URL answers the key set request: the
\* platform serves its key set, any other host answers as it likes.
Answers(baseUrl) ==
    IF stripSlashes(baseUrl) = ConfiguredBaseUrl THEN {"ok"} ELSE FetchOutcomes

\* Deliveries that differ in api.base_url only are verified by one SDK.
NextBodyUrl ==
    \/ \E id \in Verifiers, base_url \in BodyBaseUrls, token \in {"valid", "badsig"} :
          VerifyDelivery(id, base_url, ConfiguredBaseUrl, token)
    \/ \E id \in Verifiers, outcome \in FetchOutcomes :
          /\ outcome \in Answers(verifs[id].baseUrl)
          /\ CompleteFetch(id, outcome)
    \/ \E id \in Verifiers : ReturnVerify(id)
    \/ clearJwksCache
    \/ \E delta \in Deltas : Tick(delta)

SpecBodyUrl == InitVerify /\ [][NextBodyUrl]_vars

\* The claims of the tokens of the authentication-context specification: with
\* and without an expiry and each of the identifiers.
TokenClaims ==
    [sub : {<<"s">>}, exp : {Absent, Num(2)}, org_id : {Absent, Num(7)},
     ext_id : {Absent, Num(8)}, proj_id : {Absent, Num(9)}]

\* Deliveries with a token that verifies or has expired, with and without a
\* scopes claim.
AuthDeliveries ==
    { r \in [event : {<<"e">>}, pathVersion : {<<"1">>},
             headerVersion : {undefined}, queryVersion : {undefined},
             body : {"json"}, runtime_token : {"valid", "expired"},
             scopes : {undefined, <<"r">>}, claims : TokenClaims,
             signature : {"absent"},
             authentication_scopes : {undefined},
     base_url : {undefined},
     secrets : {AbsentObject}] :
        r.runtime_token # "valid" => r.scopes = undefined }

NextAuth ==
    \/ \E r \in Registrations :
          Register(r.event, r.handler, r.version, r.requiredScopes)
    \/ \E d \in AuthDeliveries : Receive(1, d)
    \/ Step(1, {"{result}"}, {HandlerFailed}, {"returns"}, {"2xx"})

SpecAuth == Init /\ [][NextAuth]_vars

\* Version strings of the registry specification: "1" and "v:1".
Versions == {<<"1">>, <<"v", ":", "1">>}

\* Registrations of the registry specification: two events, two versions,
\* two handlers.
RegistryRegistrations ==
    [event : Events, version : Versions, handler : {"h1", "h2"},
     requiredScopes : {<<>>}]

\* Deliveries of the registry specification.
RegistryDeliveries ==
    [event : {<<"e">>}, pathVersion : {<<"1">>},
     headerVersion : {undefined}, queryVersion : {undefined},
     body : {"json"}, runtime_token : {"absent", "valid"},
     scopes : {undefined}, claims : {NoClaims}, signature : {"absent"},
     authentication_scopes : {undefined},
     base_url : {undefined},
     secrets : {AbsentObject}]

\* Registrations, calls of the registry's readers and dispatches.
NextRegistry ==
    \/ \E r \in RegistryRegistrations :
          Register(r.event, r.handler, r.version, r.requiredScopes)
    \/ \E event \in Events, version \in Versions : CallGet(event, version)
    \/ CallEventNames
    \/ CallAll
    \/ \E d \in RegistryDeliveries : Receive(1, d)
    \/ Step(1, {"{result}"}, {HandlerFailed}, {"returns"}, {"2xx"})

SpecRegistry == Init /\ [][NextRegistry]_vars

\* The dispatches that can be in progress at a time.
Dispatches == {1, 2}

\* Two dispatches, nothing registered.
InitConcurrent ==
    /\ handlers = [k \in {} |-> null]
    /\ registered = [k \in {} |-> null]
    /\ nRegister = 0
    /\ keys = <<>>
    /\ regCall = NoRegistryCall
    /\ helperCall = NoHelperCall
    /\ disp = [i \in Dispatches |-> Idle]
    /\ InitJwks
    /\ reporter = TelemetryReporter(TRUE, DefaultTelemetryUrl, TRUE, undefined)
    /\ scopeCall = NoCall
    /\ recordCall = NoRecord
    /\ sigCall = NoVerify(NoSigned, undefined, <<>>,
                          Headers(NoHeader, undefined, TRUE), 0)

\* One handler for each of two events, the second requiring a scope.
ConcurrentRegistrations ==
    { [event |-> <<"e">>, version |-> <<"1">>, handler |-> "h1",
       requiredScopes |-> <<>>],
      [event |-> <<"u">>, version |-> <<"2">>, handler |-> "h2",
       requiredScopes |-> <<"r">>] }

\* Deliveries that differ in event, version, token claims, scopes, API base
\* URL and secrets.
ConcurrentDeliveries ==
    { [NoDelivery EXCEPT !.event = <<"e">>, !.pathVersion = <<"1">>,
                         !.runtime_token = "valid",
                         !.base_url = <<"b">>,
                         !.secrets = Object([key \in {"API_KEY"} |-> <<"p">>]),
                         !.claims = [NoClaims EXCEPT !.sub = <<"s">>,
                                                     !.exp = Num(2),
                                                     !.org_id = Num(7)]],
      [NoDelivery EXCEPT !.event = <<"u">>, !.pathVersion = <<"2">>,
                         !.runtime_token = "valid", !.scopes = <<"r">>,
                         !.secrets = Object([key \in {"API_KEY"} |-> <<"q">>]),
                         !.claims = [NoClaims EXCEPT !.sub = <<"t">>,
                                                     !.org_id = Num(8)]],
      [NoDelivery EXCEPT !.event = <<"u">>, !.pathVersion = <<"2">>,
                         !.runtime_token = "valid"] }

\* Registrations, and two dispatches whose steps interleave in any order.
NextConcurrent ==
    \/ \E r \in ConcurrentRegistrations :
          Register(r.event, r.handler, r.version, r.requiredScopes)
    \/ \E i \in Dispatches, d \in ConcurrentDeliveries : Receive(i, d)
    \/ \E i \in Dispatches :
          Step(i, {"{result}"}, {HandlerFailed}, {"returns"}, {"2xx"})

SpecConcurrent == InitConcurrent /\ [][NextConcurrent]_vars

\* One event registered with and without required scopes.
BodyScopesRegistrations ==
    [event : {<<"e">>}, version : {<<"1">>}, handler : {"h1"},
     requiredScopes : {<<>>, <<"r", "w">>}]

\* Deliveries with a verified token, with and without a scopes claim, whose
\* bodies carry no authentication.scopes, or scopes the token does not grant.
BodyScopesDeliveries ==
    [event : {<<"e">>}, pathVersion : {<<"1">>}, headerVersion : {undefined},
     queryVersion : {undefined}, body : {"json"}, runtime_token : {"valid"},
     scopes : {undefined, <<"r">>}, claims : {NoClaims}, signature : {"absent"},
     authentication_scopes : {undefined, <<"r", "w">>, <<"*">>},
     base_url : {undefined},
     secrets : {AbsentObject}]

\* Registrations, and two dispatches of such deliveries.
NextBodyScopes ==
    \/ \E r \in BodyScopesRegistrations :
          Register(r.event, r.handler, r.version, r.requiredScopes)
    \/ \E i \in Dispatches, d \in BodyScopesDeliveries : Receive(i, d)
    \/ \E i \in Dispatches :
          Step(i, {"{result}"}, {HandlerFailed}, {"returns"}, {"2xx"})

SpecBodyScopes == InitConcurrent /\ [][NextBodyScopes]_vars

\* Secret names: an ordinary one and one that Object.prototype has.
SecretKeys == {"API_KEY", "constructor"}

\* Secret values: the empty string and a non-empty one.
SecretValues(v) == {<<>>, <<v>>}

\* The objects with some of the secret names as own properties.
SecretMaps(v) ==
    UNION {[names -> SecretValues(v)] : names \in SUBSET SecretKeys}

\* A call of context.secret or of context.requireScopes is about to be made.
InitHelpers ==
    /\ handlers = [k \in {} |-> null]
    /\ registered = [k \in {} |-> null]
    /\ nRegister = 0
    /\ keys = <<>>
    /\ regCall = NoRegistryCall
    /\ disp = [i \in {1} |-> Idle]
    /\ InitJwks
    /\ reporter = TelemetryReporter(TRUE, DefaultTelemetryUrl, TRUE, undefined)
    /\ scopeCall = NoCall
    /\ recordCall = NoRecord
    /\ sigCall = NoVerify(NoSigned, undefined, <<>>,
                          Headers(NoHeader, undefined, TRUE), 0)
    /\ \/ \E payloadSecrets \in SecretMaps("p"), env \in SecretMaps("e"),
             key \in SecretKeys :
             helperCall = [NoHelperCall EXCEPT !.op = "secret",
                                               !.payloadSecrets = payloadSecrets,
                                               !.env = env, !.key = key]
       \/ \E granted \in ListsOf(ScopeNames, MaxScopes),
             required \in ListsOf(ScopeNames, MaxScopes) :
             helperCall = [NoHelperCall EXCEPT !.op = "requireScopes",
                                               !.granted = granted,
                                               !.required = required]

NextHelpers == CallSecret \/ CallRequireScopes

SpecHelpers == InitHelpers /\ [][NextHelpers]_vars

\* ------------------------------------------------------------ properties

\* The elements of a list.
Range(list) == {list[k] : k \in 1..Len(list)}

\* The scopes a delivery's token grants: its scopes claim, none when absent.
GrantedBy(req) == IF req.scopes = undefined THEN {} ELSE Range(req.scopes)

\* A delivery whose credential does not verify: no valid token, or no usable
\* key set (the fetch failed, or what was fetched or cached is no key set).
VerificationFails(d) == d.req.runtime_token # "valid" \/ d.jwks # "ok"

\* A dispatch that is past the authentication step.
PastAuthentication(d) ==
    /\ d.pc \notin {"Idle", "Received", "BodyParsed", "Fetching", "Verifying"}
    /\ d.req.body = "json"

\* C1: in every dispatch whose credential verification fails, the dispatch
\* ends with status 401, no AuthContext is built and no handler is invoked.
C1_VerificationFailureRejects ==
    \A i \in DOMAIN disp :
        LET d == disp[i] IN
        (PastAuthentication(d) /\ VerificationFails(d)) =>
            /\ d.pc = "Rejected" /\ d.status = 401 /\ d.sent = 1
            /\ ~d.jwtPayload.verified /\ ~d.auth.built
            /\ d.handlerCalls = 0

\* A delivery with a token of a wrong signature, for a registered event and
\* version, was rejected with 401.
C1_Witness ==
    \E i \in DOMAIN disp :
        LET d == disp[i] IN
        /\ d.pc = "Rejected" /\ d.status = 401
        /\ d.req.runtime_token = "badsig" /\ d.jwks = "ok"
        /\ resolveHandler(handlers, d.req.event,
               requestedVersionOf(d.req.pathVersion, d.req.headerVersion,
                                  d.req.queryVersion)) # null

\* C2: one verifier is chosen by the credential a delivery carries: a runtime
\* token goes to the token verifier, otherwise signature headers go to the
\* signature verifier, and a delivery with neither gets 401; so a delivery
\* with a valid signature and no runtime token is not answered 401.
C2_VerifierChosenByCredential ==
    \A i \in DOMAIN disp :
        LET d == disp[i] IN
        (d.pc \in Terminal /\ d.req.body = "json") =>
            /\ d.req.runtime_token # "absent" =>
                   (d.status = 401 <=> VerificationFails(d))
            /\ (d.req.runtime_token = "absent" /\ d.req.signature = "valid") =>
                   d.status # 401
            /\ (d.req.runtime_token = "absent" /\ d.req.signature # "valid") =>
                   d.status = 401

\* C3: an authenticated delivery whose handler requires a scope the token does
\* not grant (and the token does not grant '*') gets 403 with the required and
\* the missing scopes, and the handler is not invoked.
C3_MissingScopesForbidden ==
    \A i \in DOMAIN disp :
        LET d == disp[i]
            required == d.metadata.requiredScopes
            granted == GrantedBy(d.req)
        IN (/\ d.metadata # null /\ d.pc # "HandlerResolved"
            /\ ~(Range(required) \subseteq granted) /\ "*" \notin granted) =>
               /\ d.pc = "Rejected" /\ d.status = 403 /\ d.sent = 1
               /\ d.body.required_scopes = required
               /\ d.body.missing_scopes =
                      SelectSeq(required, LAMBDA scope : scope \notin granted)
               /\ d.handlerCalls = 0

\* A token granting only "r" met a handler requiring "r" and "w": 403, "w" missing.
C3_Witness ==
    \E i \in DOMAIN disp :
        LET d == disp[i] IN
        /\ d.pc = "Rejected" /\ d.status = 403
        /\ d.req.scopes = <<"r">> /\ d.metadata.requiredScopes = <<"r", "w">>
        /\ d.body.missing_scopes = <<"w">>

\* The fixed order of the dispatcher's states up to the invocation.
StageOrder ==
    <<"Received", "BodyParsed", "Authenticated", "VersionResolved",
      "HandlerResolved", "Authorized", "Invoking">>

\* The status the first failing stage of a dispatch decides, 0 when none fails.
FirstFailure(d) ==
    IF d.req.body = "malformed" THEN 400
    ELSE IF VerificationFails(d) THEN 401
    ELSE IF Falsy(requestedVersionOf(d.req.pathVersion, d.req.headerVersion,
                                     d.req.queryVersion)) THEN 400
    ELSE IF d.metadata = null THEN 404
    ELSE IF /\ ~(Range(d.metadata.requiredScopes) \subseteq GrantedBy(d.req))
            /\ "*" \notin GrantedBy(d.req) THEN 403
    ELSE 0

\* C5: a delivery passes the stages body parse, authenticate, resolve version,
\* look up handler, authorize, invoke in this order, and the first stage that
\* fails decides the response: 400, 401, 400, 404, 403 respectively.
C5_FirstFailingStageDecides ==
    \A i \in DOMAIN disp :
        LET d == disp[i] IN
        /\ d.stages = SubSeq(StageOrder, 1, Len(d.stages))
        /\ (d.pc \in Terminal /\ FirstFailure(d) # 0) =>
               (d.status = FirstFailure(d) /\ d.handlerCalls = 0)

\* C9: when the handler returns, the dispatch answers 200 with the handler's
\* return value, the acknowledgement {ok: true} standing in only for a handler
\* that returns nothing, and one 'ok' telemetry outcome is recorded.
C9_ReturnValueIsTheResponse ==
    \A i \in DOMAIN disp :
        LET d == disp[i] IN
        (d.pc \in Terminal /\ d.outcome = "returned" /\ Serialisable(d.result)) =>
            /\ d.status = 200 /\ d.sent = 1
            /\ d.body.value =
                   IF d.result = "undefined" THEN "{ok:true}" ELSE d.result
            /\ Len(d.telemetry) = 1 /\ d.telemetry[1].status = "ok"

\* The response the claims expect for a handler that threw: 400 for the API
\* client's error and 500 otherwise.
ThrownStatus(error) == IF error.class = "KiketSDKError" THEN 400 ELSE 500

\* A dispatch whose handler threw recorded one 'error' outcome with this
\* message and this type.
RecordedError(d, message, class) ==
    /\ Len(d.telemetry) = 1
    /\ d.telemetry[1].status = "error"
    /\ d.telemetry[1].errorMessage = message
    /\ d.telemetry[1].errorClass = class

\* C10 as stated: when the handler throws, the dispatch answers 500 (400 for a
\* KiketSDKError) with the exception's message, and an 'error' telemetry
\* outcome carrying the error's message and type is recorded.
C10_ThrowAnswersWithTheMessage ==
    \A i \in DOMAIN disp :
        LET d == disp[i] IN
        (d.pc \in Terminal /\ d.outcome = "threw") =>
            /\ d.status = ThrownStatus(d.thrown) /\ d.sent = 1
            /\ d.body.error = d.thrown.message
            /\ RecordedError(d, d.thrown.message, d.thrown.class)

\* C10, amended: when the handler throws, the dispatch answers 500 (400 for a
\* KiketSDKError); the response carries the exception's message when the
\* exception is an Error and 'Internal server error' when it is not; and an
\* 'error' telemetry outcome is recorded with the error's message (the string
\* form of a thrown value that is not an Error) and, for an Error only, its type.
C10_ThrowAnswersByKind ==
    \A i \in DOMAIN disp :
        LET d == disp[i] IN
        (d.pc \in Terminal /\ d.outcome = "threw") =>
            /\ d.status = ThrownStatus(d.thrown) /\ d.sent = 1
            /\ d.body.error =
                   IF d.thrown.isError THEN d.thrown.message
                   ELSE "Internal server error"
            /\ RecordedError(d, d.thrown.message,
                   IF d.thrown.isError THEN d.thrown.class ELSE "undefined")

\* A handler threw a KiketSDKError and the dispatch answered 400 with its message.
C10_Witness ==
    \E i \in DOMAIN disp :
        LET d == disp[i] IN
        /\ d.pc = "Failed" /\ d.outcome = "threw"
        /\ d.thrown.class = "KiketSDKError" /\ d.status = 400
        /\ d.body.error = d.thrown.message

\* C4: checkScopes returns the empty list when the wildcard is granted, and
\* otherwise the required scopes that are not granted, in the order of the
\* required list; so it is empty iff every required scope is granted or the
\* wildcard is.
C4_MissingScopes ==
    scopeCall.done =>
        LET required == scopeCall.required
            granted == Range(scopeCall.granted)
        IN /\ scopeCall.missing =
                  IF "*" \in granted THEN <<>>
                  ELSE SelectSeq(required, LAMBDA scope : scope \notin granted)
           /\ scopeCall.missing = <<>> <=>
                  (Range(required) \subseteq granted \/ "*" \in granted)

\* checkScopes returned the empty list for a wildcard grant that names none of
\* the two required scopes.
C4_Witness ==
    /\ scopeCall.done
    /\ scopeCall.required = <<"r", "w">> /\ scopeCall.granted = <<"*">>
    /\ scopeCall.missing = <<>>

\* A value that is absent, empty or whitespace only.
Blank(value) ==
    value = undefined \/ \A k \in 1..Len(value) : value[k] \in Whitespace

\* v is value without its leading and trailing whitespace, and is not empty.
TrimmedFrom(v, value) ==
    /\ value # undefined /\ v # <<>>
    /\ Head(v) \notin Whitespace /\ v[Len(v)] \notin Whitespace
    /\ \E a \in 0..Len(value) :
          /\ a + Len(v) <= Len(value)
          /\ SubSeq(value, a + 1, a + Len(v)) = v
          /\ \A k \in 1..a : value[k] \in Whitespace
          /\ \A k \in (a + Len(v) + 1)..Len(value) : value[k] \in Whitespace

\* A dispatch that is past the version step.
PastVersion(d) ==
    d.jwtPayload.verified /\ d.pc # "Authenticated"

\* C6: the requested version is the first of the path segment, the version
\* header and the version query parameter that is not empty after trimming,
\* trimmed; when there is none the dispatch answers 400 and invokes no handler.
C6_RequestedVersion ==
    \A i \in DOMAIN disp :
        LET d == disp[i]
            sources == <<d.req.pathVersion, d.req.headerVersion, d.req.queryVersion>>
        IN PastVersion(d) =>
             IF \A k \in 1..3 : Blank(sources[k])
             THEN /\ d.pc = "Rejected" /\ d.status = 400 /\ d.sent = 1
                  /\ d.body.error = VersionRequired
                  /\ d.handlerCalls = 0
             ELSE /\ d.body.error # VersionRequired
                  /\ \E k \in 1..3 :
                        /\ ~Blank(sources[k])
                        /\ \A j \in 1..(k - 1) : Blank(sources[j])
                        /\ TrimmedFrom(d.requestedVersion, sources[k])

\* The registration last made for exactly this event and version, or null.
RegisteredAt(event, version) ==
    IF <<event, version>> \in DOMAIN registered
    THEN registered[<<event, version>>]
    ELSE null

\* The dispatch does its registry lookup in this step.
LooksUp(i) == disp[i].pc = "VersionResolved" /\ disp'[i].pc # "VersionResolved"

\* C7: the handler used for event e and requested version r is the one
\* registered at (e, r) if there is one, and otherwise the one registered at
\* (e, alt(r)); the context's eventVersion is the version it is registered at.
C7_ExactThenAlternate ==
    [][\A i \in DOMAIN disp :
          /\ LooksUp(i) =>
               LET e == disp[i].req.event
                   r == disp[i].requestedVersion
                   expected == IF RegisteredAt(e, r) # null
                               THEN RegisteredAt(e, r)
                               ELSE RegisteredAt(e, alternateVersion(r))
               IN expected # null =>
                     /\ disp'[i].pc = "HandlerResolved"
                     /\ disp'[i].metadata = expected
          /\ disp'[i].pc = "Invoking" =>
               disp'[i].contextVersion = disp'[i].metadata.version]_vars

\* C8: when neither the requested version nor its alternate is registered for
\* the event, the dispatch answers 404 naming the event and the requested
\* version, and invokes no handler.
C8_UnregisteredIsNotFound ==
    [][\A i \in DOMAIN disp :
          LooksUp(i) =>
              LET e == disp[i].req.event
                  r == disp[i].requestedVersion
              IN (/\ RegisteredAt(e, r) = null
                  /\ RegisteredAt(e, alternateVersion(r)) = null) =>
                     /\ disp'[i].pc = "Rejected" /\ disp'[i].status = 404
                     /\ disp'[i].body.event = e /\ disp'[i].body.version = r
                     /\ disp'[i].handlerCalls = 0]_vars

\* C11: a delivery whose body is malformed for its declared content type is
\* rejected with status 400, in a Rejected state and never a Failed one, and
\* nothing of it is verified or handed to a handler.
C11_MalformedBodyIsRejected ==
    \A i \in DOMAIN disp :
        LET d == disp[i] IN
        (d.req.body = "malformed" /\ d.pc \notin {"Idle", "Received"}) =>
            /\ d.pc = "Rejected" /\ d.status = 400 /\ d.sent = 1
            /\ ~d.jwtPayload.verified /\ d.handlerCalls = 0

\* C12: every dispatch that creates the per-request client and invokes the
\* handler closes the client exactly once on every way out: the handler
\* returned, the handler threw, or shaping the response failed; the client is
\* not closed before the handler completed, and never twice.
C12_ClientClosedExactlyOnce ==
    \A i \in DOMAIN disp :
        LET d == disp[i] IN
        /\ d.closed <= 1
        /\ d.client # "none" <=> d.handlerCalls = 1
        /\ d.closed = 1 <=> d.client = "closed"
        /\ d.closed = 1 => d.outcome # "none"
        /\ (d.pc \in Terminal /\ d.handlerCalls = 1) => d.closed = 1

\* The handler returned a value that could not be serialised: the dispatch
\* failed with 500 after two telemetry records, and the client was closed once.
C12_Witness ==
    \E i \in DOMAIN disp :
        LET d == disp[i] IN
        /\ d.pc = "Failed" /\ d.outcome = "returned" /\ d.error = StringifyError
        /\ Len(d.telemetry) = 2 /\ d.closed = 1 /\ d.client = "closed"

\* A reporter with reporting enabled and both sinks configured.
BothSinks(rep) == rep.enabled /\ rep.feedbackHook /\ rep.endpoint # undefined

\* C13: record never throws and never returns a rejected promise: whatever the
\* feedback callback does (returns, throws, rejects) and however the POST ends
\* (2xx, non-2xx, network error, timeout), the promise of record resolves.
C13_RecordNeverThrows ==
    recordCall.done =>
        recordCall.result = "resolved" /\ recordCall.error = NoError

\* The callback threw and the POST timed out, and record resolved.
C13_Witness ==
    /\ recordCall.done /\ BothSinks(reporter)
    /\ recordCall.hookOutcome = "throws" /\ recordCall.postOutcome = "timeout"
    /\ Len(recordCall.sinks) = 2 /\ recordCall.result = "resolved"

\* C14: with reporting enabled, a feedback callback and a remote endpoint,
\* every call of record attempts both sinks, the callback and then the POST,
\* whether or not either of them fails.
C14_BothSinksAttempted ==
    (recordCall.done /\ BothSinks(reporter)) =>
        recordCall.sinks =
            Attempt("feedbackHook", recordCall.hookOutcome)
                \o Attempt("post", recordCall.postOutcome)

\* The callback's promise rejected and the POST was still made (and failed).
C14_Witness ==
    /\ recordCall.done /\ BothSinks(reporter)
    /\ recordCall.hookOutcome = "rejects"
    /\ recordCall.postOutcome = "network error"
    /\ \E k \in 1..Len(recordCall.sinks) : recordCall.sinks[k].sink = "post"

\* C15: when reporting is disabled by the configuration (enabled false) or by
\* KIKET_SDK_TELEMETRY_OPTOUT=1 in the environment the reporter was constructed
\* in, record calls neither the feedback callback nor the remote endpoint.
C15_DisabledIsNoOp ==
    (/\ recordCall.done
     /\ \/ ~reporter.constructedWith.enabled
        \/ reporter.constructedWith.env = <<"1">>) =>
        recordCall.sinks = <<>> /\ recordCall.result = "resolved"

\* A reporter constructed enabled, with both sinks, under the opt-out flag:
\* record was called and attempted nothing.
C15_Witness ==
    /\ recordCall.done /\ recordCall.sinks = <<>>
    /\ reporter.constructedWith.enabled /\ reporter.constructedWith.env = <<"1">>
    /\ reporter.feedbackHook /\ reporter.endpoint # undefined

\* The response of a dispatch whose handler was invoked, as the handler's
\* outcome alone decides it.
ResponseFor(d) ==
    IF d.outcome = "threw"
    THEN [status |-> ThrownStatus(d.thrown),
          body |-> ErrorBody(IF d.thrown.isError THEN d.thrown.message
                             ELSE InternalServerError)]
    ELSE IF Serialisable(d.result)
    THEN [status |-> 200, body |-> [NoBody EXCEPT !.value = OrAck(d.result)]]
    ELSE [status |-> 500, body |-> ErrorBody(StringifyError.message)]

\* C16: in every dispatch that invokes the handler, the handler completes
\* before telemetry is recorded and telemetry is recorded before the response
\* is sent; and the response's status and body are decided by the handler's
\* outcome alone, the same whether the telemetry sinks succeed or fail.
C16_HandlerThenTelemetryThenResponse ==
    \A i \in DOMAIN disp :
        LET d == disp[i] IN
        d.handlerCalls = 1 =>
            /\ \A a, b \in 1..Len(d.log) :
                  a < b => /\ d.log[a] # "sent"
                           /\ d.log[b] # "completed"
            /\ d.pc \in Terminal =>
                  /\ d.log[1] = "completed" /\ d.log[Len(d.log)] = "sent"
                  /\ \E k \in 1..Len(d.log) : d.log[k] = "record"
                  /\ d.status = ResponseFor(d).status
                  /\ d.body = ResponseFor(d).body

\* The handler returned an object, the feedback callback threw and the POST
\* timed out; the dispatch answered 200 with the object.
C16_Witness ==
    \E i \in DOMAIN disp :
        LET d == disp[i] IN
        /\ d.pc = "Completed" /\ d.status = 200 /\ d.body.value = "{result}"
        /\ d.sinks = Attempt("feedbackHook", "throws") \o Attempt("post", "timeout")
        /\ d.log = <<"completed", "record", "sent">>

\* C17: each dispatch that invokes the handler records exactly one outcome,
\* 'ok' when it ends Completed (200) and 'error' when it ends Failed; a dispatch
\* rejected before the invocation records none.
C17_OneOutcomePerDispatch ==
    \A i \in DOMAIN disp :
        LET d == disp[i] IN
        d.pc \in Terminal =>
            IF d.handlerCalls = 0 THEN d.telemetry = <<>>
            ELSE /\ Len(d.telemetry) = 1
                 /\ d.telemetry[1].status =
                        IF d.pc = "Completed" THEN "ok" ELSE "error"

\* What generateSignature produced for the signed secret, body and timestamp.
Produced ==
    generateSignature(sigCall.signed.secret, sigCall.signed.body,
                      sigCall.signed.timestamp)

\* The signature and the timestamp the request carries, under either name.
SignatureHeader ==
    IF sigCall.headers["x-kiket-signature"] # NoHeader
    THEN sigCall.headers["x-kiket-signature"]
    ELSE sigCall.headers["X-Kiket-Signature"]

TimestampHeader ==
    IF sigCall.headers["x-kiket-timestamp"] # undefined
    THEN sigCall.headers["x-kiket-timestamp"]
    ELSE sigCall.headers["X-Kiket-Timestamp"]

\* The request carries the produced signature and the produced timestamp.
CarriesProduced ==
    SignatureHeader = Produced.signature /\ TimestampHeader = Produced.timestamp

\* The distance in seconds between now and the signed timestamp.
Skew == abs(sigCall.now - sigCall.signed.timestamp)

\* verifySignature threw an AuthenticationError.
Rejected == sigCall.error # NoError /\ sigCall.error.class = "AuthenticationError"

\* C18: for a signature and a timestamp produced by generateSignature with a
\* timestamp within 300 seconds of now, verifySignature accepts them with the
\* same secret and the same body, and rejects them with another body or
\* another secret.
C18_GenerateThenVerify ==
    (sigCall.done /\ CarriesProduced /\ Skew <= Window) =>
        IF sigCall.secret = sigCall.signed.secret /\ sigCall.body = sigCall.signed.body
        THEN sigCall.error = NoError
        ELSE Rejected

\* A signature made 300 seconds ago for the body "xy" was verified and accepted.
C18_Witness ==
    /\ sigCall.done /\ CarriesProduced
    /\ sigCall.signed.timestamp = sigCall.now - Window
    /\ sigCall.signed.body = <<"x", "y">> /\ sigCall.body = <<"x", "y">>
    /\ sigCall.secret = sigCall.signed.secret
    /\ sigCall.error = NoError

\* C19: with a secret configured and a timestamp within the window, every
\* signature header that differs from the computed HMAC, whatever its length,
\* makes verifySignature throw the AuthenticationError 'Invalid signature' and
\* no other error, so that the dispatcher answers 401.
C19_WrongSignatureIsInvalidSignature ==
    (/\ sigCall.done /\ ~Falsy(sigCall.secret)
     /\ TimestampHeader = Produced.timestamp /\ Skew <= Window
     /\ SignatureHeader.bytes # 0
     /\ SignatureHeader #
            hmac(sigCall.secret, signedPayload(TimestampHeader, sigCall.body))) =>
        /\ sigCall.error = AuthenticationError("Invalid signature")
        /\ sigCall.status = 401

\* C20: verifySignature rejects a correctly signed delivery whose timestamp is
\* more than 300 seconds from now, in the past or in the future, and accepts
\* one whose timestamp is exactly 300 seconds from now.
C20_WindowOf300Seconds ==
    (/\ sigCall.done /\ CarriesProduced
     /\ sigCall.secret = sigCall.signed.secret
     /\ sigCall.body = sigCall.signed.body) =>
        /\ Skew > Window =>
              sigCall.error = AuthenticationError(
                  "Request timestamp too old or too far in future")
        /\ Skew = Window => sigCall.error = NoError

\* A correctly signed delivery with a timestamp 301 seconds in the future was
\* rejected.
C20_Witness ==
    /\ sigCall.done /\ CarriesProduced
    /\ sigCall.secret = sigCall.signed.secret /\ sigCall.body = sigCall.signed.body
    /\ sigCall.signed.timestamp = sigCall.now + Window + 1
    /\ Rejected /\ sigCall.status = 401

\* The verification with this id starts in this step, with a token.
Starts(id) ==
    verifs[id].pc = "idle" /\ verifs'[id].pc # "idle" /\ verifs'[id].token # "absent"

\* The fetch of the verification with this id settles in this step.
Settles(id) == verifs[id].pc = "fetching" /\ verifs'[id].pc = "done"

\* The cache holds an entry for the base URL that was stored less than one
\* hour ago.
WithinTtl(baseUrl) ==
    /\ baseUrl \in DOMAIN jwksCache
    /\ clock - jwksCache[baseUrl].fetchedAt < JWKS_CACHE_TTL

\* C21: a verification against a base URL whose key set was stored less than
\* one hour ago makes no fetch and uses the stored key set; a verification
\* that finds no entry (none stored yet, or the cache was cleared) or an entry
\* stored an hour ago or more makes a fetch, and the fetched key set is stored
\* for the base URL with the time of the fetch.
C21_OneFetchPerTtl ==
    [][\A id \in Verifiers :
          /\ Starts(id) =>
                IF WithinTtl(verifs'[id].baseUrl)
                THEN /\ verifs'[id].pc = "done" /\ ~verifs'[id].fetched
                     /\ verifs'[id].jwks = jwksCache[verifs'[id].baseUrl].jwks
                     /\ remote'.nFetch = remote.nFetch
                     /\ jwksCache' = jwksCache
                ELSE /\ verifs'[id].pc = "fetching" /\ verifs'[id].fetched
                     /\ remote'.nFetch = remote.nFetch + 1
          /\ (Settles(id) /\ verifs'[id].outcome = "ok") =>
                /\ verifs'[id].jwks.serial = verifs[id].serial
                /\ jwksCache'[verifs[id].baseUrl] =
                       [jwks |-> verifs'[id].jwks, fetchedAt |-> clock]]_vars

\* One millisecond before the entry's hour is over, a verification used the
\* key set of the one fetch made so far, without fetching.
C21_Witness ==
    \E id \in Verifiers :
        /\ verifs[id].pc = "done" /\ ~verifs[id].fetched
        /\ verifs[id].token = "valid" /\ verifs[id].result = "ok"
        /\ verifs[id].baseUrl \in DOMAIN jwksCache
        /\ jwksCache[verifs[id].baseUrl].fetchedAt = 0
        /\ clock = JWKS_CACHE_TTL - 1
        /\ remote.nFetch = 1
        /\ verifs[id].jwks = jwksCache[verifs[id].baseUrl].jwks

\* The entry a completed fetch stored for a base URL.
StoredByAFetch(baseUrl, entry) ==
    [baseUrl |-> baseUrl, jwks |-> entry.jwks, fetchedAt |-> entry.fetchedAt]
        \in remote'.stores

\* C22: however concurrent verifications interleave, the cache's entry for a
\* base URL is always a (key set, fetch time) pair that one completed fetch of
\* that URL stored; every verification uses a key set fetched for its own base
\* URL; and the store of the fetch that completes last is the entry.
C22_CacheNeverCorrupted ==
    [][/\ \A baseUrl \in DOMAIN jwksCache' :
             /\ StoredByAFetch(baseUrl, jwksCache'[baseUrl])
             /\ jwksCache'[baseUrl].jwks.url = jwksUrl(baseUrl)
       /\ \A id \in Verifiers :
             /\ (verifs'[id].pc = "done" /\ verifs'[id].jwks # NoJwks) =>
                    verifs'[id].jwks.url = jwksUrl(verifs'[id].baseUrl)
             /\ (Settles(id) /\ verifs'[id].outcome = "ok") =>
                    /\ jwksCache'[verifs[id].baseUrl].jwks.serial = verifs[id].serial
                    /\ \A other \in DOMAIN jwksCache \ {verifs[id].baseUrl} :
                          /\ other \in DOMAIN jwksCache'
                          /\ jwksCache'[other] = jwksCache[other]]_vars

\* Two verifications against the same base URL fetched at the same time; the
\* one that started first completed last, and its key set is the entry.
C22_Witness ==
    /\ verifs[1].pc = "done" /\ verifs[2].pc = "done"
    /\ verifs[1].baseUrl = verifs[2].baseUrl
    /\ verifs[1].outcome = "ok" /\ verifs[2].outcome = "ok"
    /\ verifs[1].serial = 1 /\ verifs[2].serial = 2
    /\ verifs[1].baseUrl \in DOMAIN jwksCache
    /\ jwksCache[verifs[1].baseUrl].jwks.serial = 1
    /\ Cardinality(remote.stores) = 2

\* C23: when the retrieval of the key set fails (network failure, timeout,
\* response that is not 2xx, or a response that is no key set), the
\* verification fails with the AuthenticationError 'Failed to fetch JWKS' and
\* the cache is as it was: nothing stored, no entry removed or replaced.
C23_FailedFetchLeavesCache ==
    [][\A id \in Verifiers :
          (Settles(id) /\ verifs'[id].outcome # "ok") =>
              /\ verifs'[id].result = KeyFetchFailed
              /\ jwksCache' = jwksCache]_vars

\* The failure the specification names for a verification, by its first cause
\* in the order of the checks: no token, no usable key set (a retrieval that
\* failed or a key set that is malformed), then the token's own defect; "ok"
\* for a valid token verified with a well-formed key set.
ExpectedKind(v) ==
    IF v.token = "absent" THEN MissingToken
    ELSE IF v.fetched /\ v.outcome # "ok" THEN KeyFetchFailed
    ELSE IF ~v.jwks.wellFormed THEN KeyFetchFailed
    ELSE IF v.token = "expired" THEN TokenExpired
    ELSE IF v.token = "badiss" THEN InvalidClaim
    ELSE IF v.token = "badsig" THEN InvalidTokenSignature
    ELSE IF v.token = "valid" THEN "ok"
    ELSE InvalidToken

\* C24: every token verification that fails throws the AuthenticationError of
\* the kind of its cause (missing token, key fetch failure, expired token,
\* wrong issuer, signature mismatch, any other decode error), and the
\* dispatcher answers it 401.
C24_FailureKindAnd401 ==
    \A id \in Verifiers :
        verifs[id].pc = "done" =>
            /\ verifs[id].result = ExpectedKind(verifs[id])
            /\ (verifs[id].result # "ok" =>
                    verificationStatus(verifs[id].result) = 401)

\* The AuthContext a delivery's verified claims give, without a subject.
ContextOf(d) ==
    [built |-> TRUE, runtimeToken |-> d.req.runtime_token, tokenType |-> "runtime",
     expiresAt |-> IF d.req.claims.exp.defined
                   THEN toISOString(d.req.claims.exp.value * 1000) ELSE Null,
     scopes |-> IF d.req.scopes = undefined THEN <<>> ELSE d.req.scopes,
     orgId |-> d.req.claims.org_id, extId |-> d.req.claims.ext_id,
     projId |-> d.req.claims.proj_id]

\* C25 (as stated): the AuthContext of a dispatch carries the subject of the
\* verified token, next to the expiry, the scopes and the identifiers.
C25_ContextCarriesSubject ==
    \A i \in DOMAIN disp :
        disp[i].auth.built =>
            /\ "subject" \in DOMAIN disp[i].auth
            /\ disp[i].auth.subject = disp[i].jwtPayload.claims.sub

\* C25 (amended): the AuthContext a dispatch builds carries the raw runtime
\* token, the type 'runtime', the expiry, the scope list (empty without a
\* scopes claim) and the organization, extension and project identifiers of
\* the verified token, and it does not change until the dispatch ends.
C25_ContextFromClaims ==
    [][\A i \in DOMAIN disp :
          /\ disp'[i].auth.built =>
                disp'[i].jwtPayload.verified /\ disp'[i].auth = ContextOf(disp'[i])
          /\ (disp[i].auth.built /\ disp'[i].pc # "Idle") =>
                disp'[i].auth = disp[i].auth]_vars

\* A handler has run with the context of a token that has an expiry, every
\* identifier and no scopes claim.
C25_Witness ==
    \E i \in DOMAIN disp :
        /\ disp[i].pc = "Completed" /\ disp[i].handlerCalls = 1
        /\ disp[i].req.scopes = undefined /\ disp[i].auth.scopes = <<>>
        /\ disp[i].auth.expiresAt = toISOString(2000)
        /\ disp[i].auth.orgId = Num(7) /\ disp[i].auth.extId = Num(8)
        /\ disp[i].auth.projId = Num(9)

\* The step is a call of this reader of the registry.
Calls(op) == regCall' # regCall /\ regCall'.op = op

\* C26: lookup(event, version) returns not-found when that pair was never
\* registered, and otherwise the registration made last for that pair, whose
\* event and version are the requested ones.
C26_LookupReturnsExactPair ==
    [][Calls("get") =>
          /\ regCall'.metadata = RegisteredAt(regCall'.event, regCall'.version)
          /\ regCall'.metadata # null =>
                /\ regCall'.metadata.event = regCall'.event
                /\ regCall'.metadata.version = regCall'.version]_vars

\* A call of register.
Registers == nRegister' = nRegister + 1

\* The pairs whose last registration this step makes or changes.
Upserted ==
    {pair \in DOMAIN registered' :
        pair \notin DOMAIN registered \/ registered'[pair] # registered[pair]}

\* C27: register is an idempotent upsert: registering again what a pair is
\* registered with changes nothing, a new registration of a pair replaces the
\* old one, and the lookup of every other pair is as before.
C27_IdempotentUpsert ==
    [][Registers =>
          /\ Upserted = {} => (handlers' = handlers /\ keys' = keys)
          /\ \A pair \in Upserted :
                get(handlers', pair[1], pair[2]) = registered'[pair]
          /\ \A event \in Events, version \in Versions :
                <<event, version>> \notin Upserted =>
                    get(handlers', event, version) = get(handlers, event, version)
      ]_vars

\* The (event, version) pairs of the registrations the registry holds.
StoredPairs(h) == {<<h[k].event, h[k].version>> : k \in DOMAIN h}

\* C28: the registry changes only through register, and the set of registered
\* (event, version) pairs never shrinks: every step leaves each pair that has
\* a registration in the registry with one, and a step of a dispatch, of
\* lookup, of eventNames or of all leaves the registry as it is.
C28_OnlyRegisterChangesRegistry ==
    [][/\ StoredPairs(handlers) \subseteq StoredPairs(handlers')
       /\ ~Registers => (handlers' = handlers /\ keys' = keys)]_vars

\* C29: eventNames() returns each event name that has a registered version,
\* once, and no other name.
C29_EventNamesOfRegisteredPairs ==
    [][Calls("eventNames") =>
          /\ Range(regCall'.names) = {pair[1] : pair \in DOMAIN registered}
          /\ \A j, k \in 1..Len(regCall'.names) :
                regCall'.names[j] = regCall'.names[k] => j = k]_vars

\* The API client a delivery gives: for the base URL its body names (the
\* configured one when it names none), with the workspace token of the
\* configuration, the version of its registration and its own runtime token.
ClientOf(d) ==
    [baseUrl |-> IF Falsy(d.req.base_url) THEN ConfiguredBaseUrl ELSE d.req.base_url,
     workspaceToken |-> ConfiguredWorkspaceToken,
     eventVersion |-> d.metadata.version,
     extensionApiKey |-> d.req.runtime_token]

\* The secrets a delivery gives: the object its body carries, or an empty one.
SecretsOf(d) == IF d.req.secrets.defined THEN d.req.secrets.own ELSE <<>>

\* The handler of a dispatch was invoked with the event, the version, the
\* AuthContext, the scopes, the secrets and the API client of the dispatch's
\* own delivery, whose token was verified with the key set of the delivery's
\* own API base URL.
OwnContext(d) ==
    d.handlerCalls > 0 =>
        /\ d.metadata.event = d.req.event
        /\ d.metadata.version \in
              {d.req.pathVersion, alternateVersion(d.req.pathVersion)}
        /\ d.contextVersion = d.metadata.version
        /\ d.auth = ContextOf(d)
        /\ filterMissing(d.metadata.requiredScopes, d.auth.scopes) = <<>>
        /\ d.keySet.url = jwksUrl(ClientOf(d).baseUrl)
        /\ d.clientArgs = ClientOf(d)
        /\ d.payloadSecrets = SecretsOf(d)
        /\ \A key \in SecretKeys :
              secretHelper(d.payloadSecrets, <<>>, key) =
                  secretHelper(SecretsOf(d), <<>>, key)

\* Every telemetry record of a dispatch names the dispatch's own event and
\* version and the outcome of its own handler.
OwnTelemetry(d) ==
    \A k \in 1..Len(d.telemetry) :
        /\ d.telemetry[k].event = d.req.event
        /\ d.telemetry[k].version = d.metadata.version
        /\ d.telemetry[k] = TelemetryCall(d, d.telemetry[k].status, d.error)
        /\ d.outcome = "threw" => d.telemetry[k].status = "error"

\* The response of a dispatch whose handler was invoked is the one its own
\* handler's outcome decides.
OwnResponse(d) ==
    (d.pc \in Terminal /\ d.handlerCalls > 0) =>
        d.status = ResponseFor(d).status /\ d.body = ResponseFor(d).body

\* C30: however the steps of concurrent dispatches interleave, a step of one
\* dispatch leaves the state of every other dispatch as it is, a dispatch
\* keeps its delivery until it ends, and the context its handler receives,
\* its telemetry records and its response are those of its own delivery.
C30_DispatchesDoNotInterfere ==
    [][\A i \in DOMAIN disp :
          /\ disp'[i] # disp[i] =>
                \A j \in DOMAIN disp \ {i} : disp'[j] = disp[j]
          /\ (disp[i].pc # "Idle" /\ disp'[i].pc # "Idle") =>
                disp'[i].req = disp[i].req
          /\ OwnContext(disp'[i])
          /\ OwnTelemetry(disp'[i])
          /\ OwnResponse(disp'[i])]_vars

\* Two handlers are running at the same time, each for its own event and
\* with the AuthContext of its own token, its own secrets and a client for
\* its own API base URL.
C30_Witness ==
    /\ disp[1].pc = "Invoking" /\ disp[2].pc = "Invoking"
    /\ disp[1].req.event = <<"e">> /\ disp[2].req.event = <<"u">>
    /\ disp[1].auth.orgId = Num(7) /\ disp[2].auth.orgId = Num(8)
    /\ disp[1].contextVersion = <<"1">> /\ disp[2].contextVersion = <<"2">>
    /\ disp[1].clientArgs.baseUrl = <<"b">>
    /\ disp[2].clientArgs.baseUrl = ConfiguredBaseUrl
    /\ disp[1].payloadSecrets["API_KEY"] = <<"p">>
    /\ disp[2].payloadSecrets["API_KEY"] = <<"q">>

\* C31: the handler is invoked at most once for a delivery: once a handler
\* was invoked, no later step of the dispatch invokes a handler, whether the
\* handler returned, threw or is still running.
C31_HandlerInvokedAtMostOnce ==
    [][\A i \in DOMAIN disp :
          /\ disp'[i].handlerCalls <= 1
          /\ (disp[i].handlerCalls = 1 /\ disp'[i].pc # "Idle") =>
                /\ disp'[i].handlerCalls = 1
                /\ disp'[i].pc # "Invoking" \/ disp[i].pc = "Invoking"]_vars

\* A handler threw, the 'error' outcome was recorded and the dispatch failed
\* after one invocation.
C31_Witness ==
    \E i \in DOMAIN disp :
        /\ disp[i].pc = "Failed" /\ disp[i].outcome = "threw"
        /\ disp[i].thrown = HandlerFailed /\ disp[i].handlerCalls = 1
        /\ Len(disp[i].telemetry) = 1

\* The value of a secret in an object: its own property with that name,
\* undefined when the object has none.
SecretIn(obj, key) == IF key \in DOMAIN obj THEN obj[key] ELSE undefined

\* C32: context.secret(key) returns the payload secret for key when it is
\* present and non-empty, otherwise the environment value for key, otherwise
\* undefined.
C32_PayloadSecretThenEnvironment ==
    (helperCall.op = "secret" /\ helperCall.done) =>
        helperCall.value =
            IF ~Falsy(SecretIn(helperCall.payloadSecrets, helperCall.key))
            THEN SecretIn(helperCall.payloadSecrets, helperCall.key)
            ELSE SecretIn(helperCall.env, helperCall.key)

\* Whether a text is an integer: digits, after an optional sign.
isIntegerText(s) ==
    LET digits == IF s # <<>> /\ Head(s) \in {"-", "+"} THEN Tail(s) ELSE s
    IN digits # <<>> /\ \A k \in 1..Len(digits) : isDecimalDigit(digits[k])

\* The error of the first check that fails, in the order secret, signature
\* header, timestamp header, integer timestamp, window, signature.
FirstFailingCheck ==
    IF Falsy(sigCall.secret)
    THEN AuthenticationError("Webhook secret not configured")
    ELSE IF SignatureHeader.bytes = 0
    THEN AuthenticationError("Missing X-Kiket-Signature header")
    ELSE IF Falsy(TimestampHeader)
    THEN AuthenticationError("Missing X-Kiket-Timestamp header")
    ELSE IF ~isIntegerText(TimestampHeader)
    THEN AuthenticationError("Invalid X-Kiket-Timestamp header")
    ELSE IF abs(sigCall.now - parseInt(TimestampHeader).value) > Window
    THEN AuthenticationError("Request timestamp too old or too far in future")
    ELSE IF SignatureHeader #
              hmac(sigCall.secret, signedPayload(TimestampHeader, sigCall.body))
    THEN AuthenticationError("Invalid signature")
    ELSE NoError

\* C33: verifySignature throws the AuthenticationError of the first check
\* that fails, in the order missing secret, missing signature header, missing
\* timestamp header, timestamp that is not an integer, timestamp out of the
\* window, signature mismatch; it returns when no check fails.
C33_FirstFailingCheckReported ==
    sigCall.done => sigCall.error = FirstFailingCheck

\* C34: requireScopes(s1..sn) throws a ScopeError exactly when some si is not
\* among the delivery's granted scopes and the wildcard is not granted, and
\* returns otherwise; with the wildcard granted it never throws.
C34_RequireScopesThrowsIffMissing ==
    (helperCall.op = "requireScopes" /\ helperCall.done) =>
        LET granted == Range(helperCall.granted)
            lacking == Range(helperCall.required) \ granted
        IN IF lacking # {} /\ "*" \notin granted
           THEN helperCall.error =
                    ScopeError(helperCall.required, helperCall.granted)
           ELSE helperCall.error = NoHelperError

\* requireScopes threw for a second required scope that is not granted, the
\* first one being granted.
C34_Witness ==
    /\ helperCall.op = "requireScopes" /\ helperCall.done
    /\ helperCall.granted = <<"r">> /\ helperCall.required = <<"r", "w">>
    /\ helperCall.error.class = "ScopeError"

\* C35: every dispatch ends in exactly one of Completed, Rejected and Failed
\* and sends exactly one HTTP response: nothing is sent twice, a terminal
\* state is reached with one response sent, a response that was sent is not
\* replaced, and a terminal state is left only when the request ends.
C35_OneTerminalStateOneResponse ==
    [][\A i \in DOMAIN disp :
          /\ disp'[i].sent <= 1
          /\ disp'[i].pc \in Terminal => disp'[i].sent = 1
          /\ disp[i].pc \in Terminal => disp'[i] \in {disp[i], Idle}
          /\ (disp[i].sent = 1 /\ disp'[i] # Idle) =>
                 /\ disp'[i].sent = 1
                 /\ disp'[i].status = disp[i].status
                 /\ disp'[i].body = disp[i].body]_vars

\* The handler returned, the success response was sent and the client was
\* then closed: the dispatch is Completed with that one response.
C35_Witness ==
    \E i \in DOMAIN disp :
        LET d == disp[i] IN
        /\ d.pc = "Completed" /\ d.outcome = "returned" /\ d.closed = 1
        /\ d.sent = 1 /\ d.status = 200

\* C36: the key set a delivery's token is verified with is fetched from the
\* configured base URL whatever the delivery's body says, so that deliveries
\* with the same token that differ in api.base_url only get the same verdict.
C36_KeySetFromConfiguredBaseUrl ==
    /\ \A id \in Verifiers :
          verifs[id].pc # "idle" => verifs[id].baseUrl = ConfiguredBaseUrl
    /\ \A id1, id2 \in Verifiers :
          (/\ verifs[id1].pc = "done" /\ verifs[id2].pc = "done"
           /\ verifs[id1].token = verifs[id2].token)
              => verifs[id1].result = verifs[id2].result

\* The scopes claim of the token a dispatch verified, empty when absent.
ScopesClaim(d) == IF d.req.scopes = undefined THEN <<>> ELSE d.req.scopes

\* The dispatch was answered 403.
Forbidden(d) == d.pc = "Rejected" /\ d.status = 403

\* C37: the scopes of the context and of the 403 decision are the scopes
\* claim of the verified token, empty when the token has none; dispatches of
\* deliveries that differ in the body field authentication.scopes only, for
\* the same registered handler, have the same context scopes and are both
\* answered 403 or both not.
C37_ScopesFromVerifiedToken ==
    /\ \A i \in DOMAIN disp :
          LET d == disp[i] IN
          d.auth.built =>
              /\ d.auth.scopes = ScopesClaim(d)
              /\ Forbidden(d) <=>
                     /\ "*" \notin Range(ScopesClaim(d))
                     /\ ~(Range(d.metadata.requiredScopes)
                             \subseteq Range(ScopesClaim(d)))
    /\ \A i, j \in DOMAIN disp :
          LET d == disp[i]
              e == disp[j]
          IN (/\ d.auth.built /\ e.auth.built
              /\ d.metadata = e.metadata
              /\ [d.req EXCEPT !.authentication_scopes = undefined]
                    = [e.req EXCEPT !.authentication_scopes = undefined])
                 => /\ d.auth.scopes = e.auth.scopes
                    /\ Forbidden(d) <=> Forbidden(e)

\* Two dispatches with the same token granting "r" for a handler requiring
\* "r" and "w", one of them claiming the wildcard in its body: both got 403.
C37_Witness ==
    \E i, j \in DOMAIN disp :
        /\ disp[i].req.authentication_scopes = <<"*">>
        /\ disp[j].req.authentication_scopes = undefined
        /\ disp[i].req.scopes = <<"r">> /\ disp[j].req.scopes = <<"r">>
        /\ disp[i].metadata = disp[j].metadata
        /\ disp[i].auth.scopes = <<"r">> /\ disp[j].auth.scopes = <<"r">>
        /\ Forbidden(disp[i]) /\ Forbidden(disp[j])

\* C38: every delivery that was received is eventually answered: its dispatch
\* reaches Completed, Rejected or Failed with its one response sent, whatever
\* the key fetch, the feedback callback and the telemetry POST do.
C38_EveryDispatchIsAnswered ==
    (disp[1].pc = "Received") ~> (disp[1].pc \in Terminal /\ disp[1].sent = 1)

====
